---- MODULE Spec2Model ----
(***************************************************************************)
(* Risk-control supervisor of the trading bot: the direct risk guard       *)
(* (risk_guard.py), the command center and its command file                *)
(* (risk_guard_v2.py), the consumers of the command file (profit.py,       *)
(* liquidation_ws.py), the panic service (panic/service.py,                *)
(* panic/state.py) and the file protocol of the persisted documents.       *)
(*                                                                         *)
(* Numbers.  Ratios (utilization, thresholds, targets, close fractions)    *)
(* are kept in percent, 1.0 = Scale.       Money amounts are integers.     *)
(* A close fraction is an exact rational <<num, den>>.  A utilization      *)
(* used/equity is compared with a threshold by its percent value; the  *)
(* wallets drawn below make used * Scale divisible by equity, so the value *)
(* is exact.                                                               *)
(***************************************************************************)
EXTENDS Integers, Sequences, FiniteSets, TLC

\* one (1.0) in percent
Scale == 10 * 10

\* ----------------------------------------------------------------------
\* Bounds of the model
\* ----------------------------------------------------------------------
\* utilizations drawn for the classifier: 0, Step, ..., MaxUsedSteps * Step
MaxUsedSteps == 22
\* positions in one gateway listing
MaxPositions == 2

\* ----------------------------------------------------------------------
\* Configuration (constructor defaults)
\* ----------------------------------------------------------------------
warn_at == 60
derisk_at == 70
cap_at == 80
halt_at == 90
target_after_derisk == 60
target_after_emergency == 58
chunk_derisk == 25
chunk_emergency == 33
min_chunk == 5

DefaultThresholds == [warn |-> warn_at, derisk |-> derisk_at, cap |-> cap_at, halt |-> halt_at]

\* ascending threshold configurations warn < derisk < cap < halt
ThresholdGrid == {50, 60, 70, 80, 90}
ThresholdConfigs ==
  {[warn |-> w, derisk |-> d, cap |-> c, halt |-> h] :
     <<w, d, c, h>> \in {q \in ThresholdGrid \X ThresholdGrid \X ThresholdGrid \X ThresholdGrid :
                            q[1] < q[2] /\ q[2] < q[3] /\ q[3] < q[4]}}

Modes == {"NORMAL", "ALERT", "DERISK", "EMERGENCY", "HALT"}

Severity(m) ==
  CASE m = "NORMAL" -> 0
    [] m = "ALERT" -> 1
    [] m = "DERISK" -> 2
    [] m = "EMERGENCY" -> 3
    [] m = "HALT" -> 4

Min2(a, b) == IF a <= b THEN a ELSE b
Max2(a, b) == IF a >= b THEN a ELSE b

\* utilization = max(0.0, min(1.0, used_im / total_equity if isfinite(used_im) else 0.0))
\* (used_im_finite: whether _safe_float parsed totalInitialMargin to a finite number)
Utilization(used_im, used_im_finite, total_equity) ==
  IF ~used_im_finite THEN 0
  ELSE Max2(0, Min2(Scale, (used_im * Scale) \div total_equity))

\* RiskCommandCenter.determine_risk_mode with >= replaced by > at derisk_at
determine_risk_mode_exclusive(u, th) ==
  IF u >= th.halt THEN "HALT"
  ELSE IF u >= th.cap THEN "EMERGENCY"
  ELSE IF u > th.derisk THEN "DERISK"
  ELSE IF u >= th.warn THEN "ALERT"
  ELSE "NORMAL"

\* RiskCommandCenter.determine_risk_mode: HALT first, fall through to NORMAL
determine_risk_mode(u, th) ==
  IF u >= th.halt THEN "HALT"
  ELSE IF u >= th.cap THEN "EMERGENCY"
  ELSE IF u >= th.derisk THEN "DERISK"
  ELSE IF u >= th.warn THEN "ALERT"
  ELSE "NORMAL"

\* the if/elif chain of RiskGuard.enforce_risk_controls: the branch taken
GuardBranch(u, th) ==
  IF u >= th.halt THEN "HALT"
  ELSE IF u >= th.cap THEN "EMERGENCY"
  ELSE IF u >= th.derisk THEN "DERISK"
  ELSE IF u >= th.warn THEN "ALERT"
  ELSE "NORMAL"

\* ----------------------------------------------------------------------
\* State
\* ----------------------------------------------------------------------
VARIABLES
  \* classifier harness: thresholds and the pair of utilizations classified
  cls_th, cls_in, cls_out,
  \* RiskGuard (direct mode): fields of the object
  allow_new_entries, trading_enabled, last_utilization, dry_run,
  \* risk_flag.json as one cycle leaves it
  flagFile,
  \* RiskGuard: position in run_forever and what the last cycle did
  g_pc, g_in, g_calls, g_orders, g_cancels,
  \* PanicService: the gateway client it holds, whether its callers run inside
  \* an event loop, the StateManager fields, panic.lock, trading_disabled.flag
  p_client, p_loop, sm, lockFile, sentinel,
  \* the exchange account: open position, resting linear and conditional orders
  exchange,
  \* PanicService: position in execute_panic, its locals, what the last
  \* operation returned, the order calls it sent, reports created so far
  p_pc, p_report, p_success, p_attempt, p_result, p_calls, p_started,
  \* the account when the current run of execute_panic began, whether every
  \* gateway call and file operation of the run has succeeded so far, the polls
  \* of its verify phase and whether the last one counted no position and no
  \* order, the symbols whose cancel or close call failed
  p_run,
  \* RiskCommandCenter: fields, position in run_forever; risk_commands.json
  consecutive_errors, last_mode, cc_pc, cmdFile,
  \* profit.py: what the last execute_risk_commands did, and how many
  \* executions sent orders since the command file was written
  c_log, c_applied, c_written,
  \* State Store: the document exercised, its final and temporary path, the
  \* writer's position, writes begun, what the reader last read
  st_doc, st_final, st_tmp, st_pc, st_version, st_seen,
  \* traders: the last entry order sent
  t_entry,
  \* planner harness: arguments of one shed_margin_to_target call, what it did
  pl_in, pl_out,
  \* daily ledger: the current day's record, the deltas added to it so far
  dt_day, dt_hist,
  \* profit.py's daily controls: the daily state file, the UTC day, the last
  \* baseline returned, close-all triggers of the day, first baselines of the day
  pf_file, pf_today, pf_ret, pf_closeall, pf_first, pf_kept,
  \* margin poll: the wallet response of the last cycle and what the poll made of it
  wp_in, wp_out,
  \* snapshot harness: thresholds and snapshot, what the two engines made of it
  sn_in, sn_out,
  \* the ledger shared by two processes: where each is in its call, the record
  \* it holds in memory, the delta of its add call, and whether a latch was saved
  lp_pc, lp_op, lp_local, lp_delta, lp_latched

clsVars == <<cls_th, cls_in, cls_out>>
guardVars == <<allow_new_entries, trading_enabled, last_utilization, dry_run,
               flagFile, g_pc, g_in, g_calls, g_orders, g_cancels>>
panicVars == <<p_client, p_loop, sm, lockFile, sentinel, exchange,
               p_pc, p_report, p_success, p_attempt, p_result, p_calls, p_started, p_run>>
centerVars == <<consecutive_errors, last_mode, cc_pc, cmdFile, c_log, c_applied, c_written>>
traderVars == <<t_entry>>
plannerVars == <<pl_in, pl_out>>
ledgerVars == <<dt_day, dt_hist>>
pollVars == <<wp_in, wp_out>>
snapshotVars == <<sn_in, sn_out>>
sharedVars == <<lp_pc, lp_op, lp_local, lp_delta, lp_latched>>
dailyVars == <<pf_file, pf_today, pf_ret, pf_closeall, pf_first, pf_kept>>
storeVars == <<st_doc, st_final, st_tmp, st_pc, st_version, st_seen>>
vars == <<clsVars, guardVars, panicVars, centerVars, storeVars, traderVars, plannerVars, ledgerVars, dailyVars, pollVars, snapshotVars, sharedVars>>

\* ----------------------------------------------------------------------
\* Classifier harness: determine_risk_mode and the guard's chain applied to
\* utilizations over configurable ascending thresholds
\* ----------------------------------------------------------------------
UtilizationGrid == {Utilization(k * (Scale \div 20), TRUE, Scale) : k \in 0..MaxUsedSteps}

InitCls ==
  /\ cls_th \in ThresholdConfigs
  /\ cls_in \in UtilizationGrid \X UtilizationGrid
  /\ cls_out = [done |-> FALSE, center |-> <<"none", "none">>, guard |-> <<"none", "none">>]

Classify ==
  /\ ~cls_out.done
  /\ cls_out' = [done |-> TRUE,
                 center |-> <<determine_risk_mode(cls_in[1], cls_th),
                              determine_risk_mode(cls_in[2], cls_th)>>,
                 guard |-> <<GuardBranch(cls_in[1], cls_th),
                             GuardBranch(cls_in[2], cls_th)>>]
  /\ UNCHANGED <<cls_th, cls_in>>

\* ----------------------------------------------------------------------
\* RiskGuard (risk_guard.py)
\* ----------------------------------------------------------------------
Symbols == {"A", "B"}

\* raw entries of the gateway's position list
RawPositions ==
  {[symbol |-> s, side |-> IF s = "A" THEN "Buy" ELSE "Sell", size |-> z,
    leverage |-> l, positionIM |-> m, unrealisedPnl |-> p] :
      s \in Symbols, z \in {0, 4}, l \in {5, 10}, m \in {0, 100, 400}, p \in {-1, 1}}

\* the listings drawn: at most MaxPositions entries, one per symbol, and of the
\* empty (size 0) and zero-margin entries one representative each
ListedRaw ==
  {r \in RawPositions :
     /\ (r.size = 0 => (r.symbol = "B" /\ r.leverage = 5 /\ r.positionIM = 0
                          /\ r.unrealisedPnl = 1))
     /\ (r.positionIM = 0 /\ r.size > 0 =>
           (r.symbol = "A" /\ r.leverage = 10 /\ r.unrealisedPnl = -1))
     /\ (r.symbol = "B" /\ r.positionIM > 0 => r.leverage = 5)}

RECURSIVE SeqsUpTo(_, _)
SeqsUpTo(S, n) ==
  IF n = 0 THEN {<<>>}
  ELSE LET shorter == SeqsUpTo(S, n - 1)
       IN shorter \cup {Append(q, x) : q \in {t \in shorter : Len(t) = n - 1}, x \in S}

DistinctSymbols(q) == \A i, j \in 1..Len(q) : i # j => q[i].symbol # q[j].symbol

PositionListings == {q \in SeqsUpTo(ListedRaw, MaxPositions) : DistinctSymbols(q)}

\* wallet responses: an error (non-zero retCode, empty list, exception, invalid
\* totalEquity) or the two margin fields; totalInitialMargin may fail to parse
WalletResponses ==
  {[ok |-> FALSE, totalEquity |-> 0, totalInitialMargin |-> 0, im_finite |-> TRUE]}
  \cup {[ok |-> TRUE, totalEquity |-> 1000, totalInitialMargin |-> u, im_finite |-> TRUE] :
          u \in {500, 650, 700, 750, 850, 900}}
  \cup {[ok |-> TRUE, totalEquity |-> 1000, totalInitialMargin |-> 0, im_finite |-> FALSE]}

\* get_all_positions: one normalized position per listed entry with size > 0
NormalizePosition(r) ==
  [symbol |-> r.symbol,
   side |-> IF r.side = "Buy" THEN "long" ELSE "short",
   contracts |-> r.size,
   leverage |-> IF r.leverage > 0 THEN r.leverage ELSE 1,
   position_im |-> IF r.positionIM > 0 THEN r.positionIM ELSE 0,
   is_losing |-> r.unrealisedPnl < 0]

RECURSIVE get_all_positions(_)
get_all_positions(raw) ==
  IF raw = <<>> THEN <<>>
  ELSE IF Head(raw).size > 0
       THEN <<NormalizePosition(Head(raw))>> \o get_all_positions(Tail(raw))
       ELSE get_all_positions(Tail(raw))

\* a close fraction <<num, den>> lies in (0, 1]
FractionInUnit(f) == f[1] > 0 /\ f[1] <= f[2]

NoResult == [ok |-> FALSE, orders |-> <<>>]

\* RiskGuard.close_position_fraction; outcome is the gateway's answer to place_order
close_position_fraction(position, fraction, outcome, dry) ==
  IF ~FractionInUnit(fraction) THEN NoResult
  ELSE IF position.contracts * fraction[1] <= 0 THEN NoResult
  ELSE IF dry THEN [ok |-> TRUE, orders |-> <<>>]
  ELSE [ok |-> outcome = "ok",
        orders |-> <<[symbol |-> position.symbol,
                      side |-> IF position.side = "long" THEN "Sell" ELSE "Buy",
                      orderType |-> "Market",
                      qty |-> <<position.contracts * fraction[1], fraction[2]>>,
                      reduceOnly |-> TRUE,
                      timeInForce |-> "IOC"]>>]

\* place_order answers retCode 0, or fails (another retCode, or an exception)
CloseOutcomes == {"ok", "failed"}

\* the sort key without its first component: leverage, then margin
SortsBeforeIgnoringLoss(p, q) ==
  \/ p.leverage > q.leverage
  \/ p.leverage = q.leverage /\ p.position_im > q.position_im

\* the sort key (not is_losing, -leverage, -position_im), compared lexicographically
SortsBefore(p, q) ==
  \/ p.is_losing /\ ~q.is_losing
  \/ /\ p.is_losing = q.is_losing
     /\ \/ p.leverage > q.leverage
        \/ p.leverage = q.leverage /\ p.position_im > q.position_im

RECURSIVE InsertSorted(_, _)
InsertSorted(x, sorted) ==
  IF sorted = <<>> THEN <<x>>
  ELSE IF SortsBefore(x, Head(sorted)) THEN <<x>> \o sorted
  ELSE <<Head(sorted)>> \o InsertSorted(x, Tail(sorted))

\* list.sort(key=...): stable
RECURSIVE SortPositions(_)
SortPositions(ps) ==
  IF ps = <<>> THEN <<>>
  ELSE InsertSorted(ps[Len(ps)], SortPositions(SubSeq(ps, 1, Len(ps) - 1)))

\* needed_fraction without the cap at chunk_fraction: max(0.05, remaining_excess / position_im)
needed_fraction_uncapped(remaining, position_im, chunk) ==
  LET im == position_im * Scale
  IN IF remaining * Scale <= min_chunk * im THEN <<min_chunk, Scale>> ELSE <<remaining, im>>

\* needed_fraction = min(chunk_fraction, max(0.05, remaining_excess / position_im));
\* remaining is in 1/Scale money units
needed_fraction(remaining, position_im, chunk) ==
  LET im == position_im * Scale
      floored == IF remaining * Scale <= min_chunk * im
                 THEN <<min_chunk, Scale>> ELSE <<remaining, im>>
  IN IF floored[1] * Scale >= chunk * floored[2] THEN <<chunk, Scale>> ELSE floored

\* estimated_im_freed = position_im * needed_fraction, in 1/Scale money units
estimated_im_freed(position_im, fraction) == (position_im * Scale * fraction[1]) \div fraction[2]

\* the loop of shed_margin_to_target over the sorted positions
RECURSIVE ShedLoop(_, _, _, _, _)
ShedLoop(ps, remaining, chunk, outcome, dry) ==
  IF ps = <<>> \/ remaining <= 0 THEN [calls |-> <<>>, orders |-> <<>>]
  ELSE LET pos == Head(ps)
           f == needed_fraction(remaining, pos.position_im, chunk)
           r == close_position_fraction(pos, f, outcome[pos.symbol], dry)
           left == IF r.ok THEN remaining - estimated_im_freed(pos.position_im, f)
                   ELSE remaining
           rest == ShedLoop(Tail(ps), left, chunk, outcome, dry)
       IN [calls |-> <<[symbol |-> pos.symbol, fraction |-> f, ok |-> r.ok]>> \o rest.calls,
           orders |-> r.orders \o rest.orders]

\* RiskGuard.shed_margin_to_target
shed_margin_to_target(positions, total_equity, used_im, target_utilization, chunk, outcome, dry) ==
  LET excess_im == used_im * Scale - target_utilization * total_equity
      valid_positions == SelectSeq(positions, LAMBDA p : p.position_im > 0)
  IN IF excess_im <= 0 \/ valid_positions = <<>>
     THEN [calls |-> <<>>, orders |-> <<>>]
     ELSE ShedLoop(SortPositions(valid_positions), excess_im, chunk, outcome, dry)

\* "for pos in positions: self.close_position_fraction(pos, 1.0)" stopping at the
\* first close that fails
RECURSIVE CloseAllUntilFailure(_, _, _)
CloseAllUntilFailure(ps, outcome, dry) ==
  IF ps = <<>> THEN [calls |-> <<>>, orders |-> <<>>]
  ELSE LET pos == Head(ps)
           r == close_position_fraction(pos, <<Scale, Scale>>, outcome[pos.symbol], dry)
           rest == IF r.ok THEN CloseAllUntilFailure(Tail(ps), outcome, dry)
                   ELSE [calls |-> <<>>, orders |-> <<>>]
       IN [calls |-> <<[symbol |-> pos.symbol, fraction |-> <<Scale, Scale>>, ok |-> r.ok]>>
                       \o rest.calls,
           orders |-> r.orders \o rest.orders]

\* "for pos in positions: self.close_position_fraction(pos, 1.0)"
RECURSIVE CloseAll(_, _, _)
CloseAll(ps, outcome, dry) ==
  IF ps = <<>> THEN [calls |-> <<>>, orders |-> <<>>]
  ELSE LET pos == Head(ps)
           r == close_position_fraction(pos, <<Scale, Scale>>, outcome[pos.symbol], dry)
           rest == CloseAll(Tail(ps), outcome, dry)
       IN [calls |-> <<[symbol |-> pos.symbol, fraction |-> <<Scale, Scale>>, ok |-> r.ok]>>
                       \o rest.calls,
           orders |-> r.orders \o rest.orders]

NoCycle == [ran |-> FALSE, walletOk |-> FALSE, listOk |-> FALSE, utilization |-> 0,
            total_equity |-> 0, used_im |-> 0, positions |-> <<>>, branch |-> "none"]

RECURSIVE SymbolsOf(_)
SymbolsOf(ps) == IF ps = <<>> THEN {} ELSE {Head(ps).symbol} \cup SymbolsOf(Tail(ps))

\* the document write_flag_file serializes (last_utilization, timestamp and
\* thresholds left out)
FlagDocument(allow, enabled) ==
  [allow_new_entries |-> allow, trading_enabled |-> enabled]

NoDocument == FlagDocument(TRUE, TRUE)

\* write_flag_file: open(flag_file, 'w') and json.dump, any exception swallowed
\* (a file is [state, doc]: absent, partial (truncated or half written) or complete)
write_flag_file(old, doc, outcome) ==
  CASE outcome = "ok" -> [state |-> "complete", doc |-> doc]
    [] outcome = "open_fails" -> old
    [] outcome = "write_fails" -> [state |-> "partial", doc |-> NoDocument]

FlagWriteOutcomes == {"ok", "open_fails", "write_fails"}

\* what the branch of enforce_risk_controls taken for `branch` does with the positions
GuardActions(branch, positions, total_equity, used_im, outcome, dry) ==
  CASE branch = "HALT" -> CloseAll(positions, outcome, dry)
    [] branch = "EMERGENCY" ->
         shed_margin_to_target(positions, total_equity, used_im, target_after_emergency,
                               chunk_emergency, outcome, dry)
    [] branch = "DERISK" ->
         shed_margin_to_target(positions, total_equity, used_im, target_after_derisk,
                               chunk_derisk, outcome, dry)
    [] OTHER -> [calls |-> <<>>, orders |-> <<>>]

\* the assignment each branch makes to trading_enabled
GuardTradingEnabled(branch, old) ==
  CASE branch = "HALT" -> FALSE
    [] branch = "NORMAL" -> TRUE
    [] OTHER -> old

\* the assignment each branch makes to allow_new_entries
GuardAllowNewEntries(branch) == branch \in {"ALERT", "NORMAL"}

InitGuard ==
  /\ allow_new_entries = TRUE
  /\ trading_enabled = TRUE
  /\ last_utilization = 0
  /\ dry_run = FALSE
  /\ flagFile = [state |-> "absent", doc |-> NoDocument]
  /\ g_pc = "idle"
  /\ g_in = NoCycle
  /\ g_calls = <<>>
  /\ g_orders = <<>>
  /\ g_cancels = {}

\* enforce_risk_controls, the wallet query failing: the except clause only logs
GuardCycleWalletError ==
  /\ g_pc = "idle"
  /\ g_pc' = "done"
  /\ g_in' = [NoCycle EXCEPT !.ran = TRUE]
  /\ UNCHANGED <<allow_new_entries, trading_enabled, last_utilization, dry_run, flagFile,
                 g_calls, g_orders, g_cancels>>

\* enforce_risk_controls, get_all_positions raising after the wallet query
GuardCycleListError ==
  /\ g_pc = "idle"
  /\ \E wallet \in {w \in WalletResponses : w.ok} :
       LET u == Utilization(wallet.totalInitialMargin, wallet.im_finite, wallet.totalEquity)
       IN /\ last_utilization' = u
          /\ g_in' = [NoCycle EXCEPT !.ran = TRUE, !.walletOk = TRUE, !.utilization = u,
                                     !.total_equity = wallet.totalEquity,
                                     !.used_im = wallet.totalInitialMargin,
                                     !.branch = GuardBranch(u, DefaultThresholds)]
  /\ g_pc' = "done"
  /\ UNCHANGED <<allow_new_entries, trading_enabled, dry_run, flagFile,
                 g_calls, g_orders, g_cancels>>

\* enforce_risk_controls, both queries answered
GuardCycle ==
  /\ g_pc = "idle"
  /\ \E wallet \in {w \in WalletResponses : w.ok}, listing \in PositionListings,
        outcome \in [Symbols -> CloseOutcomes], flagWrite \in FlagWriteOutcomes :
       LET u == Utilization(wallet.totalInitialMargin, wallet.im_finite, wallet.totalEquity)
           positions == get_all_positions(listing)
           branch == GuardBranch(u, DefaultThresholds)
           acts == GuardActions(branch, positions, wallet.totalEquity,
                                wallet.totalInitialMargin, outcome, dry_run)
           enabled == GuardTradingEnabled(branch, trading_enabled)
           allow == GuardAllowNewEntries(branch)
       IN /\ \A s \in Symbols \ SymbolsOf(positions) : outcome[s] = "ok"
          /\ last_utilization' = u
          /\ g_in' = [ran |-> TRUE, walletOk |-> TRUE, listOk |-> TRUE, utilization |-> u,
                      total_equity |-> wallet.totalEquity,
                      used_im |-> wallet.totalInitialMargin,
                      positions |-> positions, branch |-> branch]
          /\ g_cancels' = IF branch \in {"HALT", "EMERGENCY", "DERISK"}
                          THEN SymbolsOf(positions) ELSE {}
          /\ g_calls' = acts.calls
          /\ g_orders' = acts.orders
          /\ trading_enabled' = enabled
          /\ allow_new_entries' = allow
          /\ flagFile' = write_flag_file(flagFile, FlagDocument(allow, enabled), flagWrite)
  /\ g_pc' = "done"
  /\ UNCHANGED dry_run

\* run_forever: time.sleep, then the next cycle starts with fresh locals
GuardSleep ==
  /\ g_pc = "done"
  /\ g_pc' = "idle"
  /\ g_in' = NoCycle
  /\ g_calls' = <<>>
  /\ g_orders' = <<>>
  /\ g_cancels' = {}
  /\ UNCHANGED <<allow_new_entries, trading_enabled, last_utilization, dry_run, flagFile>>

\* ----------------------------------------------------------------------
\* The deleveraging planner on its own: shed_margin_to_target applied to drawn
\* positions, margins and chunk fractions
\* ----------------------------------------------------------------------
\* chunk_fraction values in (0, 1], in 1/Scale
ChunkGrid == {1, chunk_derisk, chunk_emergency, 50, Scale}

\* used_im values against total_equity = 10 * Scale
UsedImGrid == {650, 700, 850, 10 * Scale}

PlannerInputs ==
  {[positions |-> get_all_positions(listing), total_equity |-> 10 * Scale, used_im |-> u,
    target_utilization |-> t, chunk_fraction |-> c, outcome |-> o] :
     listing \in PositionListings, u \in UsedImGrid,
     t \in {target_after_derisk, target_after_emergency}, c \in ChunkGrid,
     o \in [Symbols -> CloseOutcomes]}

NoPlan == [done |-> FALSE, calls |-> <<>>, orders |-> <<>>]

InitPlanner ==
  /\ pl_in \in {i \in PlannerInputs :
                  \A s \in Symbols \ SymbolsOf(i.positions) : i.outcome[s] = "ok"}
  /\ pl_out = NoPlan

\* one call of shed_margin_to_target (not a dry run)
Plan ==
  /\ ~pl_out.done
  /\ LET r == shed_margin_to_target(pl_in.positions, pl_in.total_equity, pl_in.used_im,
                                    pl_in.target_utilization, pl_in.chunk_fraction,
                                    pl_in.outcome, FALSE)
     IN pl_out' = [done |-> TRUE, calls |-> r.calls, orders |-> r.orders]
  /\ UNCHANGED pl_in

IdlePlanner ==
  /\ pl_in = [positions |-> <<>>, total_equity |-> 10 * Scale, used_im |-> 0,
              target_utilization |-> target_after_derisk, chunk_fraction |-> chunk_derisk,
              outcome |-> [s \in Symbols |-> "ok"]]
  /\ pl_out = NoPlan

\* ----------------------------------------------------------------------
\* Panic coordinator (panic/service.py, panic/state.py, panic/telegram.py)
\* over the gateway wrapper (BybitUSDT/bybitwrapper.py)
\* ----------------------------------------------------------------------
\* verify.max_retries of the panic configuration
MaxRetries == 2
\* panic reports created in one behaviour
MaxRuns == 2
\* resting linear orders, and conditional orders, per symbol
MaxLinear == 2
MaxConditional == 1

\* coins.json, in file order
Coins == <<"A", "B">>

PositionSide(s) == IF s = "A" THEN "Buy" ELSE "Sell"

\* PanicReport as create_report makes it (phase_timings keeps the keys only)
create_report(started_at) ==
  [started_at |-> started_at, ended_at |-> "None", phase_timings |-> <<>>,
   symbols_touched |-> {}, orders_canceled |-> 0, positions_closed |-> 0,
   warnings |-> <<>>, locked |-> FALSE, success |-> FALSE, error_message |-> "None"]

NoReport == create_report(0)

\* finalize_report
finalize_report(report, success) ==
  [report EXCEPT !.ended_at = "set", !.success = success, !.locked = success,
                 !.error_message = IF success THEN "None" ELSE "Multiple phase failures"]

Warning(kind, symbol) == [kind |-> kind, symbol |-> symbol]

\* the JSON document of panic.lock
LockDocument(report) ==
  [panic_tripped |-> TRUE, trading_enabled |-> FALSE, last_report |-> report]

NoLockFile == [state |-> "absent", doc |-> LockDocument(NoReport)]

\* json.load of a file
Parses(file) == file.state = "complete"

\* StateManager.__init__ and _load_state: the fields and the lock file after loading
\* (a lock file that does not load is unlinked)
load_state(lock) ==
  IF lock.state # "absent"
  THEN IF Parses(lock)
       THEN [sm |-> [trading_enabled |-> FALSE, panic_tripped |-> TRUE], lock |-> lock]
       ELSE [sm |-> [trading_enabled |-> TRUE, panic_tripped |-> FALSE], lock |-> NoLockFile]
  ELSE [sm |-> [trading_enabled |-> TRUE, panic_tripped |-> FALSE], lock |-> lock]

is_panic_active(m) == m.panic_tripped

is_trading_enabled(m) == m.trading_enabled /\ ~m.panic_tripped

\* get_last_report never finding a report
get_last_report_lost(lock) == [found |-> FALSE, report |-> NoReport]

\* get_last_report: [found, report]
get_last_report(lock) ==
  IF lock.state = "absent" THEN [found |-> FALSE, report |-> NoReport]
  ELSE IF Parses(lock) THEN [found |-> TRUE, report |-> lock.doc.last_report]
  ELSE [found |-> FALSE, report |-> NoReport]

\* create_panic_lock: temp file, rename, then the flags; a failure raises and
\* leaves lock file and flags as they were
FileOutcomes == {"ok", "fails"}

create_panic_lock(m, lock, report, outcome) ==
  IF outcome = "ok"
  THEN [raised |-> FALSE, lock |-> [state |-> "complete", doc |-> LockDocument(report)],
        sm |-> [trading_enabled |-> FALSE, panic_tripped |-> TRUE]]
  ELSE [raised |-> TRUE, lock |-> lock, sm |-> m]

\* remove_panic_lock setting the flags before the unlink
remove_panic_lock_flags_first(m, lock, outcome) ==
  IF lock.state # "absent" /\ outcome # "ok"
  THEN [raised |-> TRUE, lock |-> lock,
        sm |-> [trading_enabled |-> TRUE, panic_tripped |-> FALSE]]
  ELSE [raised |-> FALSE, lock |-> NoLockFile,
        sm |-> [trading_enabled |-> TRUE, panic_tripped |-> FALSE]]

\* remove_panic_lock: unlink if the file exists, then the flags; a failing
\* unlink raises and leaves both
remove_panic_lock(m, lock, outcome) ==
  IF lock.state # "absent" /\ outcome # "ok"
  THEN [raised |-> TRUE, lock |-> lock, sm |-> m]
  ELSE [raised |-> FALSE, lock |-> NoLockFile,
        sm |-> [trading_enabled |-> TRUE, panic_tripped |-> FALSE]]

\* TelegramAlerter.send_*_alert: loop.run_until_complete raises when the caller
\* already runs inside the event loop (the HTTP and MCP handlers are coroutines)
AlertRaises(in_loop) == in_loop

\* --- gateway wrapper -------------------------------------------------
\* a query is answered, answered with an error message, or raises
GatewayOutcomes == {"ok", "notok", "raise"}
\* LinearOrder_new: accepted and filled, accepted and not filled (IOC), refused, raises
OrderOutcomes == {"filled", "unfilled", "notok", "raise"}

\* bybitwrapper LinearPositions_myPosition: body with ret_msg and the entries
LinearPositions_myPosition(ex, s, outcome) ==
  [ret_msg |-> IF outcome = "ok" THEN "OK" ELSE "",
   result |-> IF outcome # "ok" THEN <<>>
              ELSE IF ex.pos[s]
              THEN <<[entry_price |-> 1, size |-> 1, side |-> PositionSide(s)]>>
              ELSE <<[entry_price |-> 0, size |-> 0, side |-> "None"]>>]

\* bybitwrapper LinearOrder_getOrders: the body carries only "result"
LinearOrder_getOrders(ex, s) == [result |-> [data |-> ex.lin[s]]]

\* bybitwrapper LinearConditional_getOrders: the body carries only "result"
LinearConditional_getOrders(ex, s) == [result |-> [data |-> ex.cond[s]]]

\* orders[0]['ret_msg'] == 'OK' and orders[0]['result']['data'] and one of them
\* active; a body without the key raises KeyError
OrdersAnswer(body) ==
  IF "ret_msg" \notin DOMAIN body THEN "KeyError"
  ELSE IF body.ret_msg = "OK" /\ body.result.data > 0 THEN "active"
  ELSE "none"

\* _get_symbols_with_positions: the symbols whose query answers OK with an
\* entry of entry_price > 0
RECURSIVE PositionsScan(_, _, _)
PositionsScan(coins, ex, q) ==
  IF coins = <<>> THEN <<>>
  ELSE LET s == Head(coins)
           body == LinearPositions_myPosition(ex, s, q[s])
           found == /\ q[s] # "raise"
                    /\ body.ret_msg = "OK"
                    /\ \E i \in 1..Len(body.result) : body.result[i].entry_price > 0
       IN (IF found THEN <<s>> ELSE <<>>) \o PositionsScan(Tail(coins), ex, q)

get_symbols_with_positions(client, ex, q) ==
  IF ~client THEN <<>> ELSE PositionsScan(Coins, ex, q)

\* _get_symbols_with_orders: per symbol the linear query, then the conditional
\* one; any exception skips the symbol
RECURSIVE OrdersScan(_, _, _)
OrdersScan(coins, ex, q) ==
  IF coins = <<>> THEN <<>>
  ELSE LET s == Head(coins)
           linear == IF q[s] = "raise" THEN "KeyError"
                     ELSE OrdersAnswer(LinearOrder_getOrders(ex, s))
           conditional == IF linear \in {"KeyError", "active"} THEN "none"
                          ELSE OrdersAnswer(LinearConditional_getOrders(ex, s))
           found == linear = "active" \/ conditional = "active"
       IN (IF found THEN <<s>> ELSE <<>>) \o OrdersScan(Tail(coins), ex, q)

get_symbols_with_orders(client, ex, q) ==
  IF ~client THEN <<>> ELSE OrdersScan(Coins, ex, q)

\* --- the six phases -----------------------------------------------------
Timed(report, key) == [report EXCEPT !.phase_timings = Append(@, key)]

Warned(report, ws) == [report EXCEPT !.warnings = @ \o ws]

\* a gateway call as the service sends it; a cancel carries no order fields
OrderCall(call, s, reduce_only) ==
  [call |-> call, symbol |-> s, reduce_only |-> reduce_only, side |-> "none",
   order_type |-> "none", qty |-> 0, time_in_force |-> "none"]

\* the flatten order on the position's own side
FlattenOrderSameSide(s, position) ==
  [call |-> "LinearOrder_new", symbol |-> s, reduce_only |-> TRUE,
   side |-> position.side,
   order_type |-> "Market", qty |-> position.size, time_in_force |-> "IOC"]

\* the LinearOrder_new call of _phase_3_flatten_all for one position entry
FlattenOrder(s, position) ==
  [call |-> "LinearOrder_new", symbol |-> s, reduce_only |-> TRUE,
   side |-> IF position.side = "Buy" THEN "Sell" ELSE "Buy",
   order_type |-> "Market", qty |-> position.size, time_in_force |-> "IOC"]

\* the loop of _phase_2_cancel_all: LinearOrder_cancel(symbol) counts when it
\* answers OK; LinearConditional_cancel(symbol) lacks its stop_order_id
\* argument and raises TypeError, so every symbol ends in the except clause
RECURSIVE CancelLoop(_, _)
CancelLoop(symbols, o) ==
  IF symbols = <<>> THEN [canceled |-> 0, errors |-> <<>>, calls |-> <<>>, cleared |-> {}]
  ELSE LET s == Head(symbols)
           rest == CancelLoop(Tail(symbols), o)
       IN [canceled |-> (IF o[s] = "ok" THEN 1 ELSE 0) + rest.canceled,
           errors |-> <<Warning("Cancel error", s)>> \o rest.errors,
           calls |-> <<OrderCall("LinearOrder_cancel", s, FALSE)>> \o rest.calls,
           cleared |-> (IF o[s] = "ok" THEN {s} ELSE {}) \cup rest.cleared]

\* the loop of _phase_3_flatten_all: position details (d), then a market
\* reduce-only IOC order for the whole size of every entry held (o)
RECURSIVE FlattenLoop(_, _, _, _)
FlattenLoop(symbols, ex, d, o) ==
  IF symbols = <<>> THEN [closed |-> 0, errors |-> <<>>, calls |-> <<>>, filled |-> {}]
  ELSE LET s == Head(symbols)
           rest == FlattenLoop(Tail(symbols), ex, d, o)
           body == LinearPositions_myPosition(ex, s, d[s])
           ordered == /\ d[s] # "raise"
                      /\ body.ret_msg = "OK"
                      /\ \E i \in 1..Len(body.result) : body.result[i].entry_price > 0
           raised == d[s] = "raise" \/ (ordered /\ o[s] = "raise")
           accepted == ordered /\ o[s] \in {"filled", "unfilled"}
       IN [closed |-> (IF accepted THEN 1 ELSE 0) + rest.closed,
           errors |-> (IF raised THEN <<Warning("Close error", s)>> ELSE <<>>) \o rest.errors,
           calls |-> (IF ordered THEN <<FlattenOrder(s, body.result[1])>> ELSE <<>>)
                     \o rest.calls,
           filled |-> (IF ordered /\ o[s] = "filled" THEN {s} ELSE {}) \cup rest.filled]

RECURSIVE SeqToSet(_)
SeqToSet(q) == IF q = <<>> THEN {} ELSE {Head(q)} \cup SeqToSet(Tail(q))

\* the symbols whose LinearOrder_new call of _phase_3_flatten_all raised or
\* answered something else than OK
ClosesFailed(symbols, ex, d, o) ==
  {s \in SeqToSet(symbols) : d[s] = "ok" /\ ex.pos[s] /\ o[s] \in {"notok", "raise"}}

\* gateway answers that do not matter are fixed to one value
OnlyFor(f, relevant, default) == \A s \in Symbols \ relevant : f[s] = default

AllAre(f, value) == \A s \in Symbols : f[s] = value

Held(ex) == {s \in Symbols : ex.pos[s]}

NoResultYet ==
  [op |-> "none", kind |-> "none", report |-> NoReport, success |-> FALSE,
   positions_remaining |-> 0, orders_remaining |-> 0, answered |-> FALSE]

PanicResult(kind, report) ==
  [NoResultYet EXCEPT !.op = "execute_panic", !.kind = kind, !.report = report,
                      !.success = report.success]

\* what reset_panic returns; answered: the gateway answered every query of the
\* safety check with OK
ResetResult(kind, success, positions_remaining, orders_remaining, answered) ==
  [NoResultYet EXCEPT !.op = "reset_panic", !.kind = kind, !.success = success,
                      !.positions_remaining = positions_remaining,
                      !.orders_remaining = orders_remaining,
                      !.answered = answered]

\* the account without the panic service running on it
IdleExchange ==
  [pos |-> [s \in Symbols |-> FALSE], lin |-> [s \in Symbols |-> 0],
   cond |-> [s \in Symbols |-> 0]]

\* no run of execute_panic yet
NoRun ==
  [before |-> IdleExchange, clean |-> FALSE, polls |-> 0, found |-> FALSE, failed |-> {}]

\* execute_panic up to the first phase: the re-entry check, create_report and
\* the start alert (which is outside any try)
ExecutePanic ==
  /\ p_pc = "idle"
  /\ LET existing == get_last_report(lockFile)
     IN IF is_panic_active(sm) /\ existing.found
        THEN /\ p_result' = PanicResult("existing", existing.report)
             /\ UNCHANGED <<p_pc, p_report, p_success, p_attempt, p_started, p_run>>
        ELSE /\ p_started < MaxRuns
             /\ p_started' = p_started + 1
             /\ IF AlertRaises(p_loop)
                THEN /\ p_result' = PanicResult("raised", NoReport)
                     /\ UNCHANGED <<p_pc, p_report, p_success, p_attempt, p_run>>
                ELSE /\ p_result' = PanicResult("running", NoReport)
                     /\ p_pc' = "phase1"
                     /\ p_report' = create_report(p_started + 1)
                     /\ p_success' = TRUE
                     /\ p_attempt' = 0
                     /\ p_run' = [before |-> exchange, clean |-> TRUE, polls |-> 0,
                                 found |-> FALSE, failed |-> {}]
  /\ p_calls' = <<>>
  /\ UNCHANGED <<p_client, p_loop, sm, lockFile, sentinel, exchange>>

\* _phase_1_disable_trading
PanicPhase1 ==
  /\ p_pc = "phase1"
  /\ \E touch \in FileOutcomes :
       /\ sm' = [sm EXCEPT !.trading_enabled = FALSE]
       /\ sentinel' = (sentinel \/ touch = "ok")
       /\ p_report' = IF touch = "ok" THEN Timed(p_report, "disable_trading")
                      ELSE Warned(Timed(p_report, "disable_trading"),
                                  <<Warning("Phase 1 error", "")>>)
       /\ p_success' = (p_success /\ touch = "ok")
       /\ p_run' = [p_run EXCEPT !.clean = @ /\ touch = "ok"]
  /\ p_pc' = "phase2"
  /\ UNCHANGED <<p_client, p_loop, lockFile, exchange, p_attempt, p_result, p_calls,
                 p_started>>

\* _phase_2_cancel_all
PanicPhase2 ==
  /\ p_pc = "phase2"
  /\ \E q \in [Symbols -> GatewayOutcomes], o \in [Symbols -> GatewayOutcomes] :
       LET symbols == get_symbols_with_orders(p_client, exchange, q)
           r == CancelLoop(symbols, o)
       IN /\ p_run' = [p_run EXCEPT !.clean = @ /\ AllAre(q, "ok") /\ AllAre(o, "ok"),
                                     !.failed = @ \cup {s \in SeqToSet(symbols) : o[s] # "ok"}]
          /\ OnlyFor(o, SeqToSet(symbols), "ok")
          /\ OnlyFor(q, IF p_client THEN Symbols ELSE {}, "ok")
          /\ IF ~p_client
             THEN /\ p_report' = Timed(p_report, "cancel_all")
                  /\ UNCHANGED <<exchange, p_success, p_calls>>
             ELSE /\ p_report' = Timed(Warned([p_report EXCEPT !.orders_canceled = r.canceled],
                                              r.errors), "cancel_all")
                  /\ p_success' = (p_success /\ r.errors = <<>>)
                  /\ p_calls' = p_calls \o r.calls
                  /\ exchange' = [exchange EXCEPT !.lin =
                                    [s \in Symbols |-> IF s \in r.cleared THEN 0 ELSE @[s]]]
  /\ p_pc' = "phase3"
  /\ UNCHANGED <<p_client, p_loop, sm, lockFile, sentinel, p_attempt, p_result, p_started>>

\* _phase_3_flatten_all
PanicPhase3 ==
  /\ p_pc = "phase3"
  /\ \E q \in [Symbols -> GatewayOutcomes], d \in [Symbols -> GatewayOutcomes],
        o \in [Symbols -> OrderOutcomes] :
       LET symbols == get_symbols_with_positions(p_client, exchange, q)
           r == FlattenLoop(symbols, exchange, d, o)
       IN /\ p_run' = [p_run EXCEPT !.clean = @ /\ AllAre(q, "ok") /\ AllAre(d, "ok")
                                                /\ AllAre(o, "filled"),
                                     !.failed = @ \cup ClosesFailed(symbols, exchange, d, o)]
          /\ OnlyFor(q, IF p_client THEN Held(exchange) ELSE {}, "ok")
          /\ OnlyFor(d, SeqToSet(symbols), "ok")
          /\ OnlyFor(o, {s \in SeqToSet(symbols) : d[s] = "ok"}, "filled")
          /\ IF ~p_client
             THEN /\ p_report' = Timed(p_report, "flatten_all")
                  /\ UNCHANGED <<exchange, p_success, p_calls>>
             ELSE /\ p_report' = Timed(Warned([p_report EXCEPT !.positions_closed = r.closed],
                                              r.errors), "flatten_all")
                  /\ p_success' = (p_success /\ r.errors = <<>>)
                  /\ p_calls' = p_calls \o r.calls
                  /\ exchange' = [exchange EXCEPT !.pos =
                                    [s \in Symbols |-> IF s \in r.filled THEN FALSE ELSE @[s]]]
  /\ p_pc' = "phase4"
  /\ UNCHANGED <<p_client, p_loop, sm, lockFile, sentinel, p_attempt, p_result, p_started>>

\* _phase_4_verify_clean, one poll of the loop (time.sleep between polls)
PanicPhase4 ==
  /\ p_pc = "phase4"
  /\ \E q \in [Symbols -> GatewayOutcomes] :
       LET positions_remaining == Len(get_symbols_with_positions(p_client, exchange, q))
           orders_remaining == Len(get_symbols_with_orders(p_client, exchange, q))
           clean == positions_remaining = 0 /\ orders_remaining = 0
       IN /\ p_run' = IF p_client
                       THEN [p_run EXCEPT !.clean = @ /\ AllAre(q, "ok"),
                                          !.polls = @ + 1, !.found = clean]
                       ELSE p_run
          /\ OnlyFor(q, IF p_client THEN Held(exchange) ELSE {}, "ok")
          /\ IF ~p_client \/ (p_attempt < MaxRetries /\ clean)
             THEN /\ p_report' = Timed(p_report, "verify_clean")
                  /\ p_pc' = "phase5"
                  /\ UNCHANGED <<p_success, p_attempt>>
             ELSE IF p_attempt + 1 < MaxRetries
             THEN /\ p_attempt' = p_attempt + 1
                  /\ UNCHANGED <<p_report, p_pc, p_success>>
             ELSE /\ p_report' = Warned(Timed(p_report, "verify_clean"),
                                        <<Warning("Verification timeout", "")>>)
                  /\ p_success' = FALSE
                  /\ p_pc' = "phase5"
                  /\ UNCHANGED p_attempt
  /\ UNCHANGED <<p_client, p_loop, sm, lockFile, sentinel, exchange, p_result, p_calls,
                 p_started>>

\* _phase_5_arm_lock
PanicPhase5 ==
  /\ p_pc = "phase5"
  /\ \E q \in [Symbols -> GatewayOutcomes], write \in FileOutcomes :
       LET touched == SeqToSet(get_symbols_with_positions(p_client, exchange, q))
                        \cup SeqToSet(get_symbols_with_orders(p_client, exchange, q))
           report == [p_report EXCEPT !.symbols_touched = touched]
           r == create_panic_lock(sm, lockFile, report, write)
       IN /\ p_run' = [p_run EXCEPT !.clean = @ /\ AllAre(q, "ok") /\ write = "ok"]
          /\ OnlyFor(q, IF p_client THEN Held(exchange) ELSE {}, "ok")
          /\ lockFile' = r.lock
          /\ sm' = r.sm
          /\ p_report' = IF r.raised
                         THEN Warned(Timed(report, "arm_lock"), <<Warning("Phase 5 error", "")>>)
                         ELSE Timed(report, "arm_lock")
          /\ p_success' = (p_success /\ ~r.raised)
  /\ p_pc' = "phase6"
  /\ UNCHANGED <<p_client, p_loop, sentinel, exchange, p_attempt, p_result, p_calls,
                 p_started>>

\* _phase_6_send_alert, finalize_report and the return of execute_panic
PanicPhase6 ==
  /\ p_pc = "phase6"
  /\ LET alerted == IF AlertRaises(p_loop)
                    THEN Warned(Timed(p_report, "send_alert"), <<Warning("Phase 6 error", "")>>)
                    ELSE Timed(p_report, "send_alert")
         report == finalize_report(alerted, p_success)
     IN /\ p_result' = PanicResult("report", report)
        /\ p_report' = NoReport
  /\ p_pc' = "idle"
  /\ p_success' = FALSE
  /\ p_attempt' = 0
  /\ UNCHANGED <<p_client, p_loop, sm, lockFile, sentinel, exchange, p_calls, p_started, p_run>>

\* reset_panic: the safety check (only with a client), then remove_panic_lock,
\* the sentinel's unlink and the alert inside the try; the refusal's alert is
\* outside it, the except clause alerts again
ResetPanic ==
  /\ p_pc = "idle"
  /\ \E q \in [Symbols -> GatewayOutcomes], unlinkLock \in FileOutcomes,
        unlinkFlag \in FileOutcomes :
       LET positions_remaining == Len(get_symbols_with_positions(p_client, exchange, q))
           orders_remaining == Len(get_symbols_with_orders(p_client, exchange, q))
           refused == p_client /\ (positions_remaining > 0 \/ orders_remaining > 0)
           r == remove_panic_lock(sm, lockFile, unlinkLock)
           flagRaised == ~r.raised /\ unlinkFlag # "ok"
           alertRaised == ~r.raised /\ ~flagRaised /\ AlertRaises(p_loop)
           excepted == r.raised \/ flagRaised \/ alertRaised
           answered == p_client /\ \A s \in Symbols : q[s] = "ok"
       IN /\ OnlyFor(q, IF p_client THEN Held(exchange) ELSE {}, "ok")
          /\ (lockFile.state = "absent" \/ refused) => unlinkLock = "ok"
          /\ (~sentinel \/ r.raised \/ refused) => unlinkFlag = "ok"
          /\ IF refused
             THEN /\ p_result' = IF AlertRaises(p_loop)
                                 THEN ResetResult("raised", FALSE, 0, 0, answered)
                                 ELSE ResetResult("refused", FALSE, positions_remaining,
                                                  orders_remaining, answered)
                  /\ UNCHANGED <<sm, lockFile, sentinel>>
             ELSE /\ sm' = r.sm
                  /\ lockFile' = r.lock
                  /\ sentinel' = (sentinel /\ (r.raised \/ flagRaised))
                  /\ p_result' = IF ~excepted THEN ResetResult("success", TRUE, 0, 0, answered)
                                 ELSE IF AlertRaises(p_loop)
                                 THEN ResetResult("raised", FALSE, 0, 0, answered)
                                 ELSE ResetResult("error", FALSE, 0, 0, answered)
  /\ p_calls' = <<>>
  /\ UNCHANGED <<p_client, p_loop, exchange, p_pc, p_report, p_success, p_attempt, p_started, p_run>>

\* the service process starts again: PanicService.__init__ (the client may
\* not initialize), StateManager.__init__ with _load_state, and the caller's
\* context (HTTP/MCP handler inside the event loop, or a plain call)
RestartService ==
  /\ p_pc = "idle"
  /\ \E client \in BOOLEAN, in_loop \in BOOLEAN :
       /\ p_client' = client
       /\ p_loop' = in_loop
  /\ sm' = load_state(lockFile).sm
  /\ lockFile' = load_state(lockFile).lock
  /\ p_result' = NoResultYet
  /\ p_calls' = <<>>
  /\ p_run' = NoRun
  /\ UNCHANGED <<sentinel, exchange, p_pc, p_report, p_success, p_attempt, p_started>>

\* order books the account starts with
OrderBooks ==
  {[lin |-> [s \in Symbols |-> IF s = "A" THEN a ELSE b],
    cond |-> [s \in Symbols |-> IF s = "A" THEN c ELSE 0]] :
     a \in {0, MaxLinear}, b \in {0, 1}, c \in {0, MaxConditional}}

Exchanges ==
  {[pos |-> p, lin |-> b.lin, cond |-> b.cond] : p \in [Symbols -> BOOLEAN], b \in OrderBooks}

InitPanicService ==
  /\ p_client \in BOOLEAN
  /\ p_loop \in BOOLEAN
  /\ lockFile = NoLockFile
  /\ sm = load_state(NoLockFile).sm
  /\ sentinel = FALSE
  /\ p_pc = "idle"
  /\ p_report = NoReport
  /\ p_success = FALSE
  /\ p_attempt = 0
  /\ p_result = NoResultYet
  /\ p_calls = <<>>
  /\ p_started = 0
  /\ p_run = NoRun

InitPanic == InitPanicService /\ exchange \in Exchanges

IdlePanic ==
  /\ p_client = TRUE
  /\ p_loop = FALSE
  /\ lockFile = NoLockFile
  /\ sm = load_state(NoLockFile).sm
  /\ sentinel = FALSE
  /\ exchange = IdleExchange
  /\ p_pc = "idle"
  /\ p_report = NoReport
  /\ p_success = FALSE
  /\ p_attempt = 0
  /\ p_result = NoResultYet
  /\ p_calls = <<>>
  /\ p_started = 0
  /\ p_run = NoRun

\* ----------------------------------------------------------------------
\* Command center (risk_guard_v2.py), the command file, and its readers:
\* execute_risk_commands (BybitUSDT/profit.py) and check_risk_commands
\* (BybitUSDT/liquidation_ws.py)
\* ----------------------------------------------------------------------
\* wallet failures in a row that are told apart
MaxErrors == 5
\* applications of one written command that are told apart
MaxApplied == 2
\* failures in a row from which the fallback HALT is written
fallback_errors == 3

\* create_command taking its else branch (NORMAL) for every mode
create_command_else(mode, utilization, total_equity, used_im) ==
  [mode |-> mode, utilization |-> utilization, total_equity |-> total_equity,
   used_im |-> used_im, allow_new_entries |-> TRUE, cancel_all_orders |-> FALSE,
   close_positions |-> FALSE, priority |-> "NONE"]

\* create_command (timestamp, dry_run and message left out; excess_im_to_reduce
\* in 1/Scale money units)
create_command(mode, utilization, total_equity, used_im) ==
  CASE mode = "HALT" ->
         [mode |-> mode, utilization |-> utilization, total_equity |-> total_equity,
          used_im |-> used_im, allow_new_entries |-> FALSE, cancel_all_orders |-> TRUE,
          close_all_positions |-> TRUE, close_fraction |-> Scale, priority |-> "IMMEDIATE"]
    [] mode = "EMERGENCY" ->
         [mode |-> mode, utilization |-> utilization, total_equity |-> total_equity,
          used_im |-> used_im, allow_new_entries |-> FALSE, cancel_all_orders |-> TRUE,
          close_positions |-> TRUE, close_fraction |-> chunk_emergency,
          target_utilization |-> target_after_emergency,
          excess_im_to_reduce |-> used_im * Scale - target_after_emergency * total_equity,
          priority |-> "HIGH"]
    [] mode = "DERISK" ->
         [mode |-> mode, utilization |-> utilization, total_equity |-> total_equity,
          used_im |-> used_im, allow_new_entries |-> FALSE, cancel_all_orders |-> TRUE,
          close_positions |-> TRUE, close_fraction |-> chunk_derisk,
          target_utilization |-> target_after_derisk,
          excess_im_to_reduce |-> used_im * Scale - target_after_derisk * total_equity,
          priority |-> "MEDIUM"]
    [] mode = "ALERT" ->
         [mode |-> mode, utilization |-> utilization, total_equity |-> total_equity,
          used_im |-> used_im, allow_new_entries |-> TRUE, cancel_all_orders |-> FALSE,
          close_positions |-> FALSE, priority |-> "LOW"]
    [] OTHER ->
         [mode |-> mode, utilization |-> utilization, total_equity |-> total_equity,
          used_im |-> used_im, allow_new_entries |-> TRUE, cancel_all_orders |-> FALSE,
          close_positions |-> FALSE, priority |-> "NONE"]

\* the fallback command of monitor_and_command
\* the fallback command leaving entries allowed
emergency_command_entries_open ==
  [mode |-> "HALT", allow_new_entries |-> TRUE, cancel_all_orders |-> TRUE,
   close_all_positions |-> TRUE, priority |-> "IMMEDIATE"]

emergency_command ==
  [mode |-> "HALT", allow_new_entries |-> FALSE, cancel_all_orders |-> TRUE,
   close_all_positions |-> TRUE, priority |-> "IMMEDIATE"]

\* the last command of run_forever
shutdown_command == [mode |-> "SHUTDOWN", allow_new_entries |-> FALSE]

NoCommandFile == [state |-> "absent", doc |-> shutdown_command]

\* write_command_file: temp file, os.rename, any exception swallowed
write_command_file(old, command, outcome) ==
  IF outcome = "ok" THEN [state |-> "complete", doc |-> command] ELSE old

\* dict.get(key, default)
Get(doc, key, default) == IF key \in DOMAIN doc THEN doc[key] ELSE default

\* check_risk_commands: allow_new_entries of the file, True without a readable file
check_risk_commands(file) ==
  IF Parses(file) THEN Get(file.doc, "allow_new_entries", TRUE) ELSE TRUE

\* check_panic_trading_enabled, the panic server's /healthz left out
check_panic_trading_enabled(lock, flag) ==
  /\ ~(lock.state # "absent" /\ Parses(lock) /\ Get(lock.doc, "panic_tripped", FALSE))
  /\ ~flag

\* check_positions of profit.py: the entry held, if the query answers OK
HeldEntry(ex, s, outcome) ==
  LET body == LinearPositions_myPosition(ex, s, outcome)
  IN /\ body.ret_msg = "OK"
     /\ \E i \in 1..Len(body.result) :
          body.result[i].entry_price > 0 /\ body.result[i].size > 0

\* the close loop of execute_risk_commands: a market reduce-only IOC order of
\* size * close_fraction for every coin with a position; a raising
\* check_positions leaves the loop (and the function)
RECURSIVE RiskCloseLoop(_, _, _, _, _)
RiskCloseLoop(coins, ex, close_fraction, q, o) ==
  IF coins = <<>> THEN [raised |-> FALSE, orders |-> <<>>, filled |-> {}]
  ELSE LET s == Head(coins)
           rest == RiskCloseLoop(Tail(coins), ex, close_fraction, q, o)
           held == HeldEntry(ex, s, q[s])
       IN IF q[s] = "raise" THEN [raised |-> TRUE, orders |-> <<>>, filled |-> {}]
          ELSE [raised |-> rest.raised,
                orders |-> (IF held
                            THEN <<[symbol |-> s,
                                    side |-> IF PositionSide(s) = "Buy" THEN "Sell" ELSE "Buy",
                                    order_type |-> "Market", close_fraction |-> close_fraction,
                                    qty |-> LinearPositions_myPosition(ex, s, q[s]).result[1].size
                                              * close_fraction,
                                    reduce_only |-> TRUE, time_in_force |-> "IOC"]>>
                            ELSE <<>>) \o rest.orders,
                filled |-> (IF held /\ o[s] = "filled" /\ close_fraction >= Scale
                            THEN {s} ELSE {}) \cup rest.filled]

\* cancel_orders and cancel_stops of profit.py for every coin: the coins
\* whose active orders get a cancel request
CancelTargets(ex) == {s \in Symbols : ex.lin[s] + ex.cond[s] > 0}

NoExecution ==
  [ran |-> FALSE, mode |-> "none", answered |-> FALSE, held |-> {}, orders |-> <<>>,
   cancels |-> {}]

\* execute_risk_commands over the command file and the account: what it sent
\* and the account afterwards
execute_risk_commands(file, ex, q, o) ==
  LET none == [log |-> [NoExecution EXCEPT !.ran = TRUE], ex |-> ex]
  IN IF ~Parses(file) THEN none
     ELSE LET command == file.doc
              command_mode == Get(command, "mode", "NORMAL")
              closing == /\ Get(command, "close_positions", FALSE)
                         /\ Get(command, "close_fraction", 0) # 0
              closed == IF closing
                        THEN RiskCloseLoop(Coins, ex, Get(command, "close_fraction", 0), q, o)
                        ELSE [raised |-> FALSE, orders |-> <<>>, filled |-> {}]
              cancelling == ~closed.raised /\ Get(command, "cancel_all_orders", FALSE)
              cancels == IF cancelling THEN CancelTargets(ex) ELSE {}
          IN IF command_mode \in {"NORMAL", "ALERT"}
             THEN [none EXCEPT !.log.mode = command_mode]
             ELSE [log |-> [ran |-> TRUE, mode |-> command_mode,
                            answered |-> \A s \in Symbols : q[s] = "ok",
                            held |-> Held(ex), orders |-> closed.orders, cancels |-> cancels],
                   ex |-> [pos |-> [s \in Symbols |-> ex.pos[s] /\ s \notin closed.filled],
                           lin |-> [s \in Symbols |-> IF s \in cancels THEN 0 ELSE ex.lin[s]],
                           cond |-> [s \in Symbols |-> IF s \in cancels THEN 0 ELSE ex.cond[s]]]]

\* RiskCommandCenter.__init__
InitCenter ==
  /\ consecutive_errors = 0
  /\ last_mode = "NORMAL"
  /\ cc_pc = "running"

\* monitor_and_command after get_wallet_utilization returned the wallet's figures
CenterCycleOn(wallet) ==
  /\ cc_pc = "running"
  /\ \E write \in FileOutcomes :
       LET utilization == Utilization(wallet.totalInitialMargin, wallet.im_finite,
                                      wallet.totalEquity)
           current_mode == determine_risk_mode(utilization, DefaultThresholds)
           command == create_command(current_mode, utilization, wallet.totalEquity,
                                     wallet.totalInitialMargin)
       IN /\ consecutive_errors' = 0
          /\ cmdFile' = write_command_file(cmdFile, command, write)
          /\ last_mode' = current_mode
          /\ c_applied' = IF write = "ok" THEN 0 ELSE c_applied
          /\ c_written' = (write = "ok")
  /\ UNCHANGED <<cc_pc, c_log>>

\* monitor_and_command, the wallet query answered
CenterCycle == \E wallet \in {w \in WalletResponses : w.ok} : CenterCycleOn(wallet)

\* monitor_and_command, get_wallet_utilization raising: from the third
\* failure in a row on, the fallback HALT command is written
CenterCycleError ==
  /\ cc_pc = "running"
  /\ consecutive_errors < MaxErrors
  /\ consecutive_errors' = consecutive_errors + 1
  /\ \E write \in FileOutcomes :
       /\ consecutive_errors + 1 < fallback_errors => write = "ok"
       /\ IF consecutive_errors + 1 >= fallback_errors
          THEN /\ cmdFile' = write_command_file(cmdFile, emergency_command, write)
               /\ c_applied' = IF write = "ok" THEN 0 ELSE c_applied
               /\ c_written' = (write = "ok")
          ELSE UNCHANGED <<cmdFile, c_applied, c_written>>
  /\ UNCHANGED <<last_mode, cc_pc, c_log>>

\* run_forever interrupted: inside the cycle's try the loop breaks and the
\* SHUTDOWN command is written; during time.sleep the interrupt leaves
\* run_forever at once
CenterInterrupt ==
  /\ cc_pc = "running"
  /\ \E at \in {"cycle", "sleep"}, write \in FileOutcomes :
       /\ at = "sleep" => write = "ok"
       /\ IF at = "cycle"
          THEN /\ cmdFile' = write_command_file(cmdFile, shutdown_command, write)
               /\ c_applied' = IF write = "ok" THEN 0 ELSE c_applied
               /\ c_written' = (write = "ok")
          ELSE UNCHANGED <<cmdFile, c_applied, c_written>>
  /\ cc_pc' = "stopped"
  /\ UNCHANGED <<consecutive_errors, last_mode, c_log>>

\* main() run again
CenterStart ==
  /\ cc_pc = "stopped"
  /\ cc_pc' = "running"
  /\ consecutive_errors' = 0
  /\ last_mode' = "NORMAL"
  /\ UNCHANGED <<cmdFile, c_log, c_applied, c_written>>

\* one iteration of profit.py's main loop reaching execute_risk_commands;
\* c_applied counts the iterations that sent an order since the file was written
ConsumerExecute ==
  /\ \E q \in [Symbols -> GatewayOutcomes], o \in [Symbols -> OrderOutcomes] :
       LET r == execute_risk_commands(cmdFile, exchange, q, o)
           sent == r.log.orders # <<>> \/ r.log.cancels # {}
       IN /\ OnlyFor(q, Held(exchange), "ok")
          /\ OnlyFor(o, {s \in Held(exchange) : q[s] = "ok"}, "filled")
          /\ c_log' = r.log
          /\ exchange' = r.ex
          /\ c_applied' = IF sent THEN Min2(c_applied + 1, MaxApplied) ELSE c_applied
  /\ UNCHANGED <<consecutive_errors, last_mode, cc_pc, cmdFile, c_written>>

\* place_order of liquidation_ws.py: the entry order goes out only if both
\* checks allow it
TraderPlaceOrder ==
  /\ check_risk_commands(cmdFile)
  /\ check_panic_trading_enabled(lockFile, sentinel)
  /\ \E s \in Symbols :
       /\ ~exchange.pos[s]
       /\ exchange' = [exchange EXCEPT !.pos[s] = TRUE]
  /\ UNCHANGED <<consecutive_errors, last_mode, cc_pc, cmdFile, c_log, c_applied, c_written>>

IdleCenter ==
  /\ InitCenter
  /\ cmdFile = NoCommandFile
  /\ c_log = NoExecution
  /\ c_applied = 0
  /\ c_written = FALSE

\* ----------------------------------------------------------------------
\* The margin poll over raw wallet responses (get_wallet_utilization of
\* risk_guard_v2.py; get_im_utilization of risk_guard.py reads the response
\* the same way)
\* ----------------------------------------------------------------------
\* a field of the wallet entry: absent, a value float() rejects, or a number
WalletFields(numbers) ==
  {[kind |-> "missing", value |-> 0], [kind |-> "text", value |-> 0]}
  \cup {[kind |-> "number", value |-> n] : n \in numbers}

\* get_wallet_balance responses: retCode, whether result.list has an entry,
\* and the entry's two margin fields
RawWalletResponses ==
  [retCode : {0, 10001}, listed : BOOLEAN,
   totalEquity : WalletFields({0, 1000}),
   totalInitialMargin : WalletFields({500, 900})]

\* _safe_float(wallet.get(key, 0)): NaN for what float() rejects
safe_float(field) ==
  IF field.kind = "missing" THEN [finite |-> TRUE, value |-> 0]
  ELSE IF field.kind = "text" THEN [finite |-> FALSE, value |-> 0]
  ELSE [finite |-> TRUE, value |-> field.value]

NoPoll ==
  [polled |-> FALSE, raised |-> FALSE, utilization |-> 0, total_equity |-> 0,
   used_im |-> 0, im_finite |-> TRUE]

\* get_wallet_utilization: raises, or returns utilization, total_equity, used_im
get_wallet_utilization(response) ==
  LET total_equity == safe_float(response.totalEquity)
      used_im == safe_float(response.totalInitialMargin)
      raises == [NoPoll EXCEPT !.polled = TRUE, !.raised = TRUE]
  IN IF response.retCode # 0 THEN raises
     ELSE IF ~response.listed THEN raises
     ELSE IF ~(total_equity.finite /\ total_equity.value > 0) THEN raises
     ELSE [polled |-> TRUE, raised |-> FALSE,
           utilization |-> Utilization(used_im.value, used_im.finite, total_equity.value),
           total_equity |-> total_equity.value, used_im |-> used_im.value,
           im_finite |-> used_im.finite]

InitPoll ==
  /\ wp_in \in RawWalletResponses
  /\ wp_out = NoPoll

\* one monitor_and_command cycle over the response wp_in of the gateway
PollCycle ==
  /\ \E response \in RawWalletResponses :
       LET r == get_wallet_utilization(response)
       IN /\ wp_in' = response
          /\ wp_out' = r
          /\ IF r.raised THEN CenterCycleError
             ELSE CenterCycleOn([ok |-> TRUE, totalEquity |-> r.total_equity,
                                 totalInitialMargin |-> r.used_im,
                                 im_finite |-> r.im_finite])

IdlePoll ==
  /\ wp_in = [retCode |-> 0, listed |-> FALSE, totalEquity |-> [kind |-> "missing", value |-> 0],
              totalInitialMargin |-> [kind |-> "missing", value |-> 0]]
  /\ wp_out = NoPoll

\* ----------------------------------------------------------------------
\* One snapshot handled by both risk engines under configured thresholds:
\* the branch RiskGuard.enforce_risk_controls takes and the command
\* RiskCommandCenter.monitor_and_command creates
\* ----------------------------------------------------------------------
\* totalInitialMargin of the snapshots, totalEquity being 10 * Scale
SnapshotImGrid == {550, 600, 650, 750, 850}

SnapshotInputs ==
  [th : ThresholdConfigs, used_im : SnapshotImGrid,
   listing : {l \in PositionListings : Len(l) <= 1}]

NoSnapshot ==
  [done |-> FALSE, mode |-> "none", excess_im |-> 0, orders |-> <<>>,
   command |-> shutdown_command]

\* excess_im = used_im - target * total_equity of the mode's target, in 1/Scale
\* money units (risk_guard.py:216-217, risk_guard_v2.py:143-144, 157-158)
excess_im(mode, total_equity, used_im) ==
  used_im * Scale
    - (IF mode = "EMERGENCY" THEN target_after_emergency ELSE target_after_derisk) * total_equity

InitSnapshot ==
  /\ sn_in \in SnapshotInputs
  /\ sn_out = NoSnapshot

\* the snapshot taken through one cycle of each engine, every close accepted
HandleSnapshot ==
  /\ ~sn_out.done
  /\ LET total_equity == 10 * Scale
         utilization == Utilization(sn_in.used_im, TRUE, total_equity)
         mode == determine_risk_mode(utilization, sn_in.th)
         acts == GuardActions(GuardBranch(utilization, sn_in.th),
                              get_all_positions(sn_in.listing), total_equity, sn_in.used_im,
                              [s \in Symbols |-> "ok"], FALSE)
     IN sn_out' = [done |-> TRUE, mode |-> mode,
                   excess_im |-> excess_im(mode, total_equity, sn_in.used_im),
                   orders |-> acts.orders,
                   command |-> create_command(mode, utilization, total_equity, sn_in.used_im)]
  /\ UNCHANGED sn_in

IdleSnapshot ==
  /\ sn_in = [th |-> DefaultThresholds, used_im |-> 550, listing |-> <<>>]
  /\ sn_out = NoSnapshot

\* ----------------------------------------------------------------------
\* Traders that open exposure: place_order of liquidation_ws.py and
\* place_buy_order of portfolio_manager.py, over the three stop signals
\* ----------------------------------------------------------------------
\* the stop signals as the files hold them
StopSignals(lock, flag, file) ==
  [panic_tripped |-> lock.state # "absent" /\ Parses(lock) /\ lock.doc.panic_tripped,
   sentinel |-> flag,
   allow_new_entries |-> IF Parses(file) THEN Get(file.doc, "allow_new_entries", TRUE)
                         ELSE TRUE]

\* the last entry order sent and the stop signals when its iteration began
NoEntry ==
  [placed |-> FALSE, trader |-> "none", symbol |-> "none", reduce_only |-> FALSE,
   signals |-> StopSignals(NoLockFile, FALSE, NoCommandFile)]

EntryOrder(trader, s, lock, flag, file) ==
  [placed |-> TRUE, trader |-> trader, symbol |-> s, reduce_only |-> FALSE,
   signals |-> StopSignals(lock, flag, file)]

\* place_order of liquidation_ws.py with the order it sends recorded
LiquidationEntry ==
  /\ TraderPlaceOrder
  /\ \E s \in Symbols :
       /\ ~exchange.pos[s] /\ exchange'.pos[s]
       /\ t_entry' = EntryOrder("liquidation_ws", s, lockFile, sentinel, cmdFile)

\* place_buy_order of portfolio_manager.py, called from its main loop for a
\* symbol it does not hold: a market Buy, no stop signal is read
PortfolioBuy ==
  /\ \E s \in Symbols :
       /\ ~exchange.pos[s]
       /\ exchange' = [exchange EXCEPT !.pos[s] = TRUE]
       /\ t_entry' = EntryOrder("portfolio_manager", s, lockFile, sentinel, cmdFile)
  /\ UNCHANGED <<consecutive_errors, last_mode, cc_pc, cmdFile, c_log, c_applied, c_written>>

\* a position is closed outside the traders (take profit, stop loss)
PositionCloses ==
  /\ \E s \in Symbols :
       /\ exchange.pos[s]
       /\ exchange' = [exchange EXCEPT !.pos[s] = FALSE]
  /\ UNCHANGED <<consecutive_errors, last_mode, cc_pc, cmdFile, c_log, c_applied, c_written, t_entry>>

\* command files the command center leaves behind
CommandFiles ==
  {NoCommandFile} \cup
  {[state |-> "complete", doc |-> c] :
     c \in {create_command(determine_risk_mode(u, DefaultThresholds), u, 10 * Scale, 10 * u) :
              u \in {0, warn_at, derisk_at, cap_at, halt_at}}
           \cup {emergency_command, shutdown_command}}

\* panic.lock as a run of execute_panic leaves it
LockFiles ==
  {NoLockFile, [state |-> "complete", doc |-> LockDocument(Timed(Timed(Timed(Timed(create_report(1),
     "disable_trading"), "cancel_all"), "flatten_all"), "verify_clean"))]}

IdleTraders == t_entry = NoEntry

\* ----------------------------------------------------------------------
\* The State Store at the level of file operations: one writer of one shared
\* document (open, write, close, rename) against a reader of its final path
\* ----------------------------------------------------------------------
\* write() calls one json.dump takes
DocLen == 2
\* writes of the document begun in one behaviour
MaxVersions == 3

\* risk_flag.json (RiskGuard.write_flag_file), risk_commands.json
\* (RiskCommandCenter.write_command_file), state/panic.lock
\* (StateManager.create_panic_lock), state/daily_pnl.json (daily_tracker.save_state
\* and profit.py _save_daily_state)
Documents == {"risk_flag.json", "risk_commands.json", "panic.lock", "daily_pnl.json"}

\* the writers that never write through a temporary path
UsesTempFileNever(doc) == FALSE

\* the writers that write to "<path>.tmp" and rename it over the final path
UsesTempFile(doc) == doc \in {"risk_commands.json", "panic.lock"}

NoFile == [exists |-> FALSE, version |-> 0, len |-> 0]

Complete(file) == file.exists /\ file.len = DocLen

InitStore ==
  /\ st_doc \in Documents
  /\ st_final = NoFile
  /\ st_tmp = NoFile
  /\ st_pc = "idle"
  /\ st_version = 0
  /\ st_seen = [file |-> NoFile, during |-> "idle"]

\* open(path, 'w'): the path opened exists and is empty
StoreOpen ==
  /\ st_pc = "idle"
  /\ st_version < MaxVersions
  /\ st_version' = st_version + 1
  /\ IF UsesTempFile(st_doc)
     THEN /\ st_tmp' = [exists |-> TRUE, version |-> st_version + 1, len |-> 0]
          /\ UNCHANGED st_final
     ELSE /\ st_final' = [exists |-> TRUE, version |-> st_version + 1, len |-> 0]
          /\ UNCHANGED st_tmp
  /\ st_pc' = "writing"
  /\ UNCHANGED <<st_doc, st_seen>>

\* json.dump: the next part of the document reaches the open path
StoreWrite ==
  /\ st_pc = "writing"
  /\ IF UsesTempFile(st_doc)
     THEN /\ st_tmp.len < DocLen
          /\ st_tmp' = [st_tmp EXCEPT !.len = @ + 1]
          /\ UNCHANGED st_final
     ELSE /\ st_final.len < DocLen
          /\ st_final' = [st_final EXCEPT !.len = @ + 1]
          /\ UNCHANGED st_tmp
  /\ UNCHANGED <<st_doc, st_pc, st_version, st_seen>>

\* the with block ends after the whole document is written
StoreClose ==
  /\ st_pc = "writing"
  /\ IF UsesTempFile(st_doc) THEN st_tmp.len = DocLen ELSE st_final.len = DocLen
  /\ st_pc' = IF UsesTempFile(st_doc) THEN "closed" ELSE "idle"
  /\ UNCHANGED <<st_doc, st_final, st_tmp, st_version, st_seen>>

\* os.rename(temp_file, path)
StoreRename ==
  /\ st_pc = "closed"
  /\ st_final' = st_tmp
  /\ st_tmp' = NoFile
  /\ st_pc' = "idle"
  /\ UNCHANGED <<st_doc, st_version, st_seen>>

\* the writer is interrupted or raises: the files stay as they are
StoreInterrupt ==
  /\ st_pc # "idle"
  /\ st_pc' = "idle"
  /\ UNCHANGED <<st_doc, st_final, st_tmp, st_version, st_seen>>

\* a reader opens the final path and reads it
StoreRead ==
  /\ st_seen' = [file |-> st_final, during |-> st_pc]
  /\ UNCHANGED <<st_doc, st_final, st_tmp, st_pc, st_version>>

IdleStore ==
  /\ st_doc = "risk_commands.json"
  /\ st_final = NoFile
  /\ st_tmp = NoFile
  /\ st_pc = "idle"
  /\ st_version = 0
  /\ st_seen = [file |-> NoFile, during |-> "idle"]

\* ----------------------------------------------------------------------
\* Daily PnL ledger (daily_tracker.py): the current UTC day's record in
\* state/daily_pnl.json; amounts in thirds of 0.000001 USDT
\* ----------------------------------------------------------------------
\* add_realized_pnl calls in one behaviour
MaxTrades == 3
\* resolution of the amounts below the sixth decimal round() keeps
TicksPerMicro == 3
DAILY_TARGET_PCT == 3
EQUITY_USDT == 120

Usdt == 1000000 * TicksPerMicro

\* round(x, 6)
Round6(x) == TicksPerMicro * ((2 * x + TicksPerMicro) \div (2 * TicksPerMicro))

\* deltas passed to add_realized_pnl
DeltaGrid == {50 * Usdt, -20 * Usdt, -50 * Usdt, 0, 1, -1, -2}

\* state.get(key, {...}): the day's record, or the default of add_realized_pnl
NoDayRecord ==
  [present |-> FALSE, realized |-> 0, stopped |-> FALSE, loss_streak |-> 0, trades |-> 0]

\* add_realized_pnl counting a zero delta as a loss
add_realized_pnl_zero_loses(day, delta_usdt) ==
  [present |-> TRUE,
   realized |-> Round6(day.realized + delta_usdt),
   stopped |-> day.stopped,
   loss_streak |-> IF delta_usdt <= 0 THEN day.loss_streak + 1 ELSE 0,
   trades |-> day.trades + 1]

\* add_realized_pnl starting every record it saves with the latch open
add_realized_pnl_unlatched(day, delta_usdt) ==
  [present |-> TRUE,
   realized |-> Round6(day.realized + delta_usdt),
   stopped |-> FALSE,
   loss_streak |-> IF delta_usdt < 0 THEN day.loss_streak + 1 ELSE 0,
   trades |-> day.trades + 1]

\* add_realized_pnl: the record saved for the day
add_realized_pnl(day, delta_usdt) ==
  [present |-> TRUE,
   realized |-> Round6(day.realized + delta_usdt),
   stopped |-> day.stopped,
   loss_streak |-> IF delta_usdt < 0 THEN day.loss_streak + 1 ELSE 0,
   trades |-> day.trades + 1]

\* target_usdt = EQUITY_USDT * DAILY_TARGET_PCT / 100.0
target_usdt == (EQUITY_USDT * DAILY_TARGET_PCT * Usdt) \div 100

InitLedger ==
  /\ dt_day = NoDayRecord
  /\ dt_hist = <<>>

AddRealizedPnl ==
  /\ Len(dt_hist) < MaxTrades
  /\ \E delta_usdt \in DeltaGrid :
       /\ dt_day' = add_realized_pnl(dt_day, delta_usdt)
       /\ dt_hist' = Append(dt_hist, delta_usdt)

\* reset_if_new_day: a zero record if the day has none
ResetIfNewDay ==
  /\ ~dt_day.present
  /\ dt_day' = [NoDayRecord EXCEPT !.present = TRUE]
  /\ UNCHANGED dt_hist

\* reached_daily_target: latches stopped once realized reaches the target
ReachedDailyTarget ==
  /\ dt_day.realized >= target_usdt /\ ~dt_day.stopped
  /\ dt_day' = [dt_day EXCEPT !.present = TRUE, !.stopped = TRUE]
  /\ UNCHANGED dt_hist

IdleLedger == InitLedger

\* ----------------------------------------------------------------------
\* The daily ledger shared by two processes (daily_tracker.py): every call
\* loads the whole file, changes its copy and saves the whole file; save_state
\* opens the file for writing (which empties it) and then dumps the document
\* ----------------------------------------------------------------------
Procs == {1, 2}

\* deltas passed to add_realized_pnl by the two processes
SharedDeltas == {50 * Usdt, -20 * Usdt}

InitShared ==
  /\ lp_pc = [p \in Procs |-> "idle"]
  /\ lp_op = [p \in Procs |-> "none"]
  /\ lp_local = [p \in Procs |-> NoDayRecord]
  /\ lp_delta = [p \in Procs |-> 0]
  /\ lp_latched = FALSE

\* add calls begun: returned ones and those between load and save
AddsBegun == Len(dt_hist) + Cardinality({p \in Procs : lp_pc[p] # "idle" /\ lp_op[p] = "add"})

\* add_realized_pnl up to save_state: load_state, then the day's record
\* updated in memory
SharedAddLoad(p) ==
  /\ lp_pc[p] = "idle"
  /\ AddsBegun < MaxTrades
  /\ \E delta_usdt \in SharedDeltas :
       /\ lp_local' = [lp_local EXCEPT ![p] = add_realized_pnl(dt_day, delta_usdt)]
       /\ lp_delta' = [lp_delta EXCEPT ![p] = delta_usdt]
  /\ lp_pc' = [lp_pc EXCEPT ![p] = "loaded"]
  /\ lp_op' = [lp_op EXCEPT ![p] = "add"]
  /\ UNCHANGED <<dt_day, dt_hist, lp_latched>>

\* reached_daily_target up to save_state: load_state, and the latch set in
\* memory when the target is reached and the day not stopped (the call
\* returns without saving otherwise)
SharedTargetLoad(p) ==
  /\ lp_pc[p] = "idle"
  /\ dt_day.realized >= target_usdt /\ ~dt_day.stopped
  /\ lp_local' = [lp_local EXCEPT ![p] = [dt_day EXCEPT !.present = TRUE, !.stopped = TRUE]]
  /\ lp_pc' = [lp_pc EXCEPT ![p] = "loaded"]
  /\ lp_op' = [lp_op EXCEPT ![p] = "target"]
  /\ UNCHANGED <<dt_day, dt_hist, lp_delta, lp_latched>>

\* save_state, open(STATE_PATH, 'w'): the file is emptied, and load_state of
\* an empty file returns {}
SharedSaveOpen(p) ==
  /\ lp_pc[p] = "loaded"
  /\ dt_day' = NoDayRecord
  /\ lp_pc' = [lp_pc EXCEPT ![p] = "opened"]
  /\ UNCHANGED <<dt_hist, lp_op, lp_local, lp_delta, lp_latched>>

\* save_state, json.dump: the process's copy becomes the file; the call returns
SharedSaveWrite(p) ==
  /\ lp_pc[p] = "opened"
  /\ dt_day' = lp_local[p]
  /\ dt_hist' = IF lp_op[p] = "add" THEN Append(dt_hist, lp_delta[p]) ELSE dt_hist
  /\ lp_latched' = (lp_latched \/ lp_op[p] = "target")
  /\ lp_pc' = [lp_pc EXCEPT ![p] = "idle"]
  /\ UNCHANGED <<lp_op, lp_local, lp_delta>>

IdleShared == InitShared

\* ----------------------------------------------------------------------
\* Daily PnL controls of profit.py's main loop: the daily state file
\* (date, baseline_equity), the current UTC day, amounts in whole USDT
\* ----------------------------------------------------------------------
\* UTC days told apart
MaxDays == 2
\* close-all triggers of one day that are told apart
MaxCloseAll == 3
\* settings.get('risk_management', {}).get('daily_target_pct', 10)
daily_target_pct == 10
\* settings.get('risk_management', {}).get('daily_max_dd_pct', 5)
daily_max_dd_pct == 5

\* get_equity: the account equity, 0.0 when the gateway call fails
EquityGrid == {0, 94, 100, 110}

NoDailyState == [date |-> 0, baseline_equity |-> 0]
NoBaseline == [called |-> FALSE, baseline |-> 0]

\* ensure_daily_baseline rewriting the baseline whenever the equity differs
ensure_daily_baseline_latest(state, today, equity_now, save) ==
  IF state.date # today \/ state.baseline_equity # equity_now
  THEN [state |-> IF save = "ok"
                  THEN [date |-> today, baseline_equity |-> equity_now] ELSE state,
        baseline |-> equity_now]
  ELSE [state |-> state, baseline |-> state.baseline_equity]

\* ensure_daily_baseline over the loaded state (a missing key is None, which
\* is falsy as 0.0 is): the state saved and the baseline returned;
\* _save_daily_state swallows a failing write
ensure_daily_baseline(state, today, equity_now, save) ==
  IF state.date # today \/ state.baseline_equity = 0
  THEN [state |-> IF save = "ok"
                  THEN [date |-> today, baseline_equity |-> equity_now] ELSE state,
        baseline |-> equity_now]
  ELSE [state |-> state, baseline |-> state.baseline_equity]

\* daily_pct >= target_pct or daily_pct <= -max_dd_pct, with daily_pct =
\* (equity_now - baseline) / baseline * 100 for a positive baseline, else 0
DailyBoundCrossed(equity_now, baseline) ==
  /\ baseline > 0
  /\ \/ (equity_now - baseline) * 100 >= daily_target_pct * baseline
     \/ (equity_now - baseline) * 100 <= -daily_max_dd_pct * baseline

InitDaily ==
  /\ pf_file = NoDailyState
  /\ pf_today = 1
  /\ pf_ret = NoBaseline
  /\ pf_closeall = 0
  /\ pf_first = NoBaseline
  /\ pf_kept = NoBaseline

\* one iteration of the main loop, its daily section: get_equity,
\* ensure_daily_baseline, then close_all_positions_reduce_only if a bound is
\* crossed. pf_first is the baseline of the day's first call, pf_kept the
\* first non-zero baseline of the day that reached the file
DailyControl ==
  \E equity_now \in EquityGrid, save \in FileOutcomes :
    LET r == ensure_daily_baseline(pf_file, pf_today, equity_now, save)
    IN /\ pf_file' = r.state
       /\ pf_ret' = [called |-> TRUE, baseline |-> r.baseline]
       /\ pf_first' = IF pf_first.called THEN pf_first
                      ELSE [called |-> TRUE, baseline |-> r.baseline]
       /\ pf_kept' = IF ~pf_kept.called /\ r.state.date = pf_today
                        /\ r.state.baseline_equity # 0
                     THEN [called |-> TRUE, baseline |-> r.state.baseline_equity]
                     ELSE pf_kept
       /\ pf_closeall' = IF DailyBoundCrossed(equity_now, r.baseline)
                         THEN Min2(pf_closeall + 1, MaxCloseAll) ELSE pf_closeall
       /\ UNCHANGED pf_today

\* midnight UTC
DailyNewDay ==
  /\ pf_today < MaxDays
  /\ pf_today' = pf_today + 1
  /\ pf_closeall' = 0
  /\ pf_first' = NoBaseline
  /\ pf_kept' = NoBaseline
  /\ UNCHANGED <<pf_file, pf_ret>>

\* profit.py started again: only the state file is left
DailyRestart ==
  /\ pf_ret.called
  /\ pf_ret' = NoBaseline
  /\ UNCHANGED <<pf_file, pf_today, pf_closeall, pf_first, pf_kept>>

IdleDaily == InitDaily

\* ----------------------------------------------------------------------
\* Specifications
\* ----------------------------------------------------------------------
IdleCls ==
  /\ cls_th = DefaultThresholds
  /\ cls_in = <<0, 0>>
  /\ cls_out = [done |-> TRUE, center |-> <<"none", "none">>, guard |-> <<"none", "none">>]

\* the classifier over drawn utilizations and thresholds
InitClassify == InitCls /\ InitGuard /\ IdlePanic /\ IdleCenter /\ IdleStore /\ IdleTraders /\ IdlePlanner /\ IdleLedger /\ IdleDaily /\ IdlePoll /\ IdleSnapshot /\ IdleShared
NextClassify == Classify /\ UNCHANGED <<guardVars, panicVars, centerVars, storeVars, traderVars, plannerVars, ledgerVars, dailyVars, pollVars, snapshotVars, sharedVars>>
SpecClassify == InitClassify /\ [][NextClassify]_vars

\* the direct risk guard
InitG == IdleCls /\ InitGuard /\ IdlePanic /\ IdleCenter /\ IdleStore /\ IdleTraders /\ IdlePlanner /\ IdleLedger /\ IdleDaily /\ IdlePoll /\ IdleSnapshot /\ IdleShared
NextGuard ==
  \/ GuardCycleWalletError /\ UNCHANGED <<clsVars, panicVars, centerVars, storeVars, traderVars, plannerVars, ledgerVars, dailyVars, pollVars, snapshotVars, sharedVars>>
  \/ GuardCycleListError /\ UNCHANGED <<clsVars, panicVars, centerVars, storeVars, traderVars, plannerVars, ledgerVars, dailyVars, pollVars, snapshotVars, sharedVars>>
  \/ GuardCycle /\ UNCHANGED <<clsVars, panicVars, centerVars, storeVars, traderVars, plannerVars, ledgerVars, dailyVars, pollVars, snapshotVars, sharedVars>>
  \/ GuardSleep /\ UNCHANGED <<clsVars, panicVars, centerVars, storeVars, traderVars, plannerVars, ledgerVars, dailyVars, pollVars, snapshotVars, sharedVars>>
SpecGuard == InitG /\ [][NextGuard]_vars

\* the panic service over an exchange account
InitP == IdleCls /\ InitGuard /\ InitPanic /\ IdleCenter /\ IdleStore /\ IdleTraders /\ IdlePlanner /\ IdleLedger /\ IdleDaily /\ IdlePoll /\ IdleSnapshot /\ IdleShared
NextPanic ==
  \/ ExecutePanic /\ UNCHANGED <<clsVars, guardVars, centerVars, storeVars, traderVars, plannerVars, ledgerVars, dailyVars, pollVars, snapshotVars, sharedVars>>
  \/ PanicPhase1 /\ UNCHANGED <<clsVars, guardVars, centerVars, storeVars, traderVars, plannerVars, ledgerVars, dailyVars, pollVars, snapshotVars, sharedVars>>
  \/ PanicPhase2 /\ UNCHANGED <<clsVars, guardVars, centerVars, storeVars, traderVars, plannerVars, ledgerVars, dailyVars, pollVars, snapshotVars, sharedVars>>
  \/ PanicPhase3 /\ UNCHANGED <<clsVars, guardVars, centerVars, storeVars, traderVars, plannerVars, ledgerVars, dailyVars, pollVars, snapshotVars, sharedVars>>
  \/ PanicPhase4 /\ UNCHANGED <<clsVars, guardVars, centerVars, storeVars, traderVars, plannerVars, ledgerVars, dailyVars, pollVars, snapshotVars, sharedVars>>
  \/ PanicPhase5 /\ UNCHANGED <<clsVars, guardVars, centerVars, storeVars, traderVars, plannerVars, ledgerVars, dailyVars, pollVars, snapshotVars, sharedVars>>
  \/ PanicPhase6 /\ UNCHANGED <<clsVars, guardVars, centerVars, storeVars, traderVars, plannerVars, ledgerVars, dailyVars, pollVars, snapshotVars, sharedVars>>
  \/ ResetPanic /\ UNCHANGED <<clsVars, guardVars, centerVars, storeVars, traderVars, plannerVars, ledgerVars, dailyVars, pollVars, snapshotVars, sharedVars>>
  \/ RestartService /\ UNCHANGED <<clsVars, guardVars, centerVars, storeVars, traderVars, plannerVars, ledgerVars, dailyVars, pollVars, snapshotVars, sharedVars>>
SpecPanic == InitP /\ [][NextPanic]_vars

\* the command center, the consumer of its commands and an entry-placing
\* trader over one exchange account
otherPanicVars == <<p_client, p_loop, sm, lockFile, sentinel, p_pc, p_report, p_success,
                    p_attempt, p_result, p_calls, p_started, p_run>>
InitC ==
  /\ IdleCls /\ InitGuard
  /\ InitPanicService /\ p_client = TRUE /\ p_loop = FALSE
  /\ exchange \in {ex \in Exchanges : Held(ex) = {} /\ ex.lin["B"] = 0
                                        /\ (ex.lin["A"] > 0 <=> ex.cond["A"] > 0)}
  /\ IdleCenter
  /\ IdleStore
  /\ IdleShared
  /\ IdleSnapshot
  /\ IdlePoll
  /\ IdleDaily
  /\ IdleLedger
  /\ IdlePlanner
  /\ IdleTraders
NextCenter ==
  \/ CenterCycle /\ UNCHANGED <<clsVars, guardVars, panicVars, storeVars, traderVars, plannerVars, ledgerVars, dailyVars, pollVars, snapshotVars, sharedVars>>
  \/ CenterCycleError /\ UNCHANGED <<clsVars, guardVars, panicVars, storeVars, traderVars, plannerVars, ledgerVars, dailyVars, pollVars, snapshotVars, sharedVars>>
  \/ CenterInterrupt /\ UNCHANGED <<clsVars, guardVars, panicVars, storeVars, traderVars, plannerVars, ledgerVars, dailyVars, pollVars, snapshotVars, sharedVars>>
  \/ CenterStart /\ UNCHANGED <<clsVars, guardVars, panicVars, storeVars, traderVars, plannerVars, ledgerVars, dailyVars, pollVars, snapshotVars, sharedVars>>
  \/ ConsumerExecute /\ UNCHANGED <<clsVars, guardVars, otherPanicVars, storeVars, traderVars, plannerVars, ledgerVars, dailyVars, pollVars, snapshotVars, sharedVars>>
  \/ TraderPlaceOrder /\ UNCHANGED <<clsVars, guardVars, otherPanicVars, storeVars, traderVars, plannerVars, ledgerVars, dailyVars, pollVars, snapshotVars, sharedVars>>
SpecCenter == InitC /\ [][NextCenter]_vars

\* the two entry-placing traders over stop signals as the command center and
\* the panic service leave them
InitT ==
  /\ IdleCls /\ InitGuard
  /\ InitCenter /\ c_log = NoExecution /\ c_applied = 0 /\ c_written = FALSE
  /\ cmdFile \in CommandFiles
  /\ p_client = TRUE /\ p_loop = FALSE
  /\ lockFile \in LockFiles
  /\ sm = load_state(lockFile).sm
  /\ sentinel \in BOOLEAN
  /\ exchange = IdleExchange
  /\ p_pc = "idle" /\ p_report = NoReport /\ p_success = FALSE /\ p_attempt = 0
  /\ p_result = NoResultYet /\ p_calls = <<>> /\ p_started = 0 /\ p_run = NoRun
  /\ IdleStore
  /\ IdleShared
  /\ IdleSnapshot
  /\ IdlePoll
  /\ IdleDaily
  /\ IdleLedger
  /\ IdlePlanner
  /\ IdleTraders
NextTraders ==
  \/ LiquidationEntry /\ UNCHANGED <<clsVars, guardVars, otherPanicVars, storeVars, plannerVars, ledgerVars, dailyVars, pollVars, snapshotVars, sharedVars>>
  \/ PortfolioBuy /\ UNCHANGED <<clsVars, guardVars, otherPanicVars, storeVars, plannerVars, ledgerVars, dailyVars, pollVars, snapshotVars, sharedVars>>
  \/ PositionCloses /\ UNCHANGED <<clsVars, guardVars, otherPanicVars, storeVars, plannerVars, ledgerVars, dailyVars, pollVars, snapshotVars, sharedVars>>
SpecTraders == InitT /\ [][NextTraders]_vars

\* the deleveraging planner over drawn arguments
InitPl ==
  /\ IdleCls /\ InitGuard /\ IdlePanic /\ IdleCenter
  /\ IdleStore
  /\ IdleShared
  /\ IdleSnapshot
  /\ IdlePoll
  /\ IdleDaily
  /\ IdleLedger
  /\ IdleTraders
  /\ InitPlanner
NextPlanner == Plan /\ UNCHANGED <<clsVars, guardVars, panicVars, centerVars, storeVars, traderVars, ledgerVars, dailyVars, pollVars, snapshotVars, sharedVars>>
SpecPlanner == InitPl /\ [][NextPlanner]_vars

\* one process using the daily ledger within one UTC day
InitL ==
  /\ IdleCls /\ InitGuard /\ IdlePanic /\ IdleCenter
  /\ IdleStore
  /\ IdleShared
  /\ IdleSnapshot
  /\ IdlePoll
  /\ IdleDaily
  /\ IdleTraders
  /\ IdlePlanner
  /\ InitLedger
NextLedger ==
  \/ AddRealizedPnl /\ UNCHANGED <<clsVars, guardVars, panicVars, centerVars, storeVars, traderVars, plannerVars, dailyVars, pollVars, snapshotVars, sharedVars>>
  \/ ResetIfNewDay /\ UNCHANGED <<clsVars, guardVars, panicVars, centerVars, storeVars, traderVars, plannerVars, dailyVars, pollVars, snapshotVars, sharedVars>>
  \/ ReachedDailyTarget /\ UNCHANGED <<clsVars, guardVars, panicVars, centerVars, storeVars, traderVars, plannerVars, dailyVars, pollVars, snapshotVars, sharedVars>>
SpecLedger == InitL /\ [][NextLedger]_vars

\* the daily controls of profit.py's main loop over two UTC days
InitD ==
  /\ IdleCls /\ InitGuard /\ IdlePanic /\ IdleCenter
  /\ IdleStore
  /\ IdleShared
  /\ IdleSnapshot
  /\ IdlePoll
  /\ IdleTraders
  /\ IdlePlanner
  /\ IdleLedger
  /\ InitDaily
NextDaily ==
  \/ DailyControl /\ UNCHANGED <<clsVars, guardVars, panicVars, centerVars, storeVars, traderVars, plannerVars, ledgerVars, pollVars, snapshotVars, sharedVars>>
  \/ DailyNewDay /\ UNCHANGED <<clsVars, guardVars, panicVars, centerVars, storeVars, traderVars, plannerVars, ledgerVars, pollVars, snapshotVars, sharedVars>>
  \/ DailyRestart /\ UNCHANGED <<clsVars, guardVars, panicVars, centerVars, storeVars, traderVars, plannerVars, ledgerVars, pollVars, snapshotVars, sharedVars>>
SpecDaily == InitD /\ [][NextDaily]_vars

\* the command center polling a gateway that answers with any wallet response
InitW ==
  /\ IdleCls /\ InitGuard /\ IdlePanic /\ IdleCenter
  /\ IdleStore
  /\ IdleShared
  /\ IdleSnapshot
  /\ IdleTraders
  /\ IdlePlanner
  /\ IdleLedger
  /\ IdleDaily
  /\ InitPoll
NextPoll == PollCycle /\ UNCHANGED <<clsVars, guardVars, panicVars, storeVars, traderVars, plannerVars, ledgerVars, dailyVars, snapshotVars, sharedVars>>
SpecPoll == InitW /\ [][NextPoll]_vars

\* snapshots under every threshold configuration
InitSn ==
  /\ IdleCls /\ InitGuard /\ IdlePanic /\ IdleCenter
  /\ IdleStore
  /\ IdleShared
  /\ IdleTraders
  /\ IdlePlanner
  /\ IdleLedger
  /\ IdleDaily
  /\ IdlePoll
  /\ InitSnapshot
NextSnapshot == HandleSnapshot /\ UNCHANGED <<clsVars, guardVars, panicVars, centerVars, storeVars, traderVars, plannerVars, ledgerVars, dailyVars, pollVars, sharedVars>>
SpecSnapshot == InitSn /\ [][NextSnapshot]_vars

\* a writer and a reader of one State Store document
InitS == IdleCls /\ InitGuard /\ IdlePanic /\ IdleCenter /\ InitStore /\ IdleTraders /\ IdlePlanner /\ IdleLedger /\ IdleDaily /\ IdlePoll /\ IdleSnapshot /\ IdleShared
NextStore ==
  \/ StoreOpen /\ UNCHANGED <<clsVars, guardVars, panicVars, centerVars, traderVars, plannerVars, ledgerVars, dailyVars, pollVars, snapshotVars, sharedVars>>
  \/ StoreWrite /\ UNCHANGED <<clsVars, guardVars, panicVars, centerVars, traderVars, plannerVars, ledgerVars, dailyVars, pollVars, snapshotVars, sharedVars>>
  \/ StoreClose /\ UNCHANGED <<clsVars, guardVars, panicVars, centerVars, traderVars, plannerVars, ledgerVars, dailyVars, pollVars, snapshotVars, sharedVars>>
  \/ StoreRename /\ UNCHANGED <<clsVars, guardVars, panicVars, centerVars, traderVars, plannerVars, ledgerVars, dailyVars, pollVars, snapshotVars, sharedVars>>
  \/ StoreInterrupt /\ UNCHANGED <<clsVars, guardVars, panicVars, centerVars, traderVars, plannerVars, ledgerVars, dailyVars, pollVars, snapshotVars, sharedVars>>
  \/ StoreRead /\ UNCHANGED <<clsVars, guardVars, panicVars, centerVars, traderVars, plannerVars, ledgerVars, dailyVars, pollVars, snapshotVars, sharedVars>>
SpecStore == InitS /\ [][NextStore]_vars

\* the three risk-control paths over one account: cycles of the direct guard,
\* a panic run up to its flatten phase and the consumer of a command file.
\* The paths share nothing but the account, so their steps commute and one
\* order of turns is explored: the guard's cycles up to the first one that
\* leaves a flag file, then the panic run and the consumer interleaved
GuardTurn == p_started = 0 /\ ~c_log.ran /\ (g_pc = "idle" => flagFile.state = "absent")
OthersTurn == g_pc = "idle"
InitRisk ==
  /\ IdleCls /\ InitGuard
  /\ InitPanicService /\ p_client = TRUE /\ p_loop = FALSE
  /\ exchange = [IdleExchange EXCEPT !.pos = [s \in Symbols |-> TRUE]]
  /\ InitCenter /\ c_log = NoExecution /\ c_applied = 0 /\ c_written = FALSE
  /\ cmdFile \in {f \in CommandFiles : Parses(f) /\ Get(f.doc, "close_positions", FALSE)}
  /\ IdleStore
  /\ IdleShared
  /\ IdleSnapshot
  /\ IdlePoll
  /\ IdleDaily
  /\ IdleLedger
  /\ IdlePlanner
  /\ IdleTraders
NextRisk ==
  \/ GuardTurn /\ GuardCycle /\ UNCHANGED <<clsVars, panicVars, centerVars, storeVars, traderVars, plannerVars, ledgerVars, dailyVars, pollVars, snapshotVars, sharedVars>>
  \/ GuardTurn /\ GuardSleep /\ UNCHANGED <<clsVars, panicVars, centerVars, storeVars, traderVars, plannerVars, ledgerVars, dailyVars, pollVars, snapshotVars, sharedVars>>
  \/ OthersTurn /\ ExecutePanic /\ UNCHANGED <<clsVars, guardVars, centerVars, storeVars, traderVars, plannerVars, ledgerVars, dailyVars, pollVars, snapshotVars, sharedVars>>
  \/ PanicPhase1 /\ UNCHANGED <<clsVars, guardVars, centerVars, storeVars, traderVars, plannerVars, ledgerVars, dailyVars, pollVars, snapshotVars, sharedVars>>
  \/ PanicPhase2 /\ UNCHANGED <<clsVars, guardVars, centerVars, storeVars, traderVars, plannerVars, ledgerVars, dailyVars, pollVars, snapshotVars, sharedVars>>
  \/ PanicPhase3 /\ UNCHANGED <<clsVars, guardVars, centerVars, storeVars, traderVars, plannerVars, ledgerVars, dailyVars, pollVars, snapshotVars, sharedVars>>
  \/ OthersTurn /\ ConsumerExecute /\ UNCHANGED <<clsVars, guardVars, otherPanicVars, storeVars, traderVars, plannerVars, ledgerVars, dailyVars, pollVars, snapshotVars, sharedVars>>
SpecRisk == InitRisk /\ [][NextRisk]_vars

\* one StateManager over a lock file no other process touches: the methods
\* in any order, a restart of the process included
ReportsToLock ==
  {[create_report(n) EXCEPT !.orders_canceled = c, !.positions_closed = z,
                            !.symbols_touched = touched] :
     n \in 1..MaxRuns, c \in 0..MaxLinear, z \in 0..MaxPositions, touched \in SUBSET Symbols}

\* panic.lock as a start-up may find it: absent, whole, or not loadable
StartupLockFiles ==
  {NoLockFile} \cup {[state |-> st, doc |-> LockDocument(create_report(1))] :
                       st \in {"complete", "partial"}}

StateResult(op, kind) == [NoResultYet EXCEPT !.op = op, !.kind = kind]

InitStateManager ==
  /\ \E found \in StartupLockFiles :
       /\ sm = load_state(found).sm
       /\ lockFile = load_state(found).lock
  /\ p_client = TRUE /\ p_loop = FALSE /\ sentinel = FALSE /\ exchange = IdleExchange
  /\ p_pc = "idle" /\ p_report = NoReport /\ p_success = FALSE /\ p_attempt = 0
  /\ p_result = NoResultYet /\ p_calls = <<>> /\ p_started = 0 /\ p_run = NoRun

otherStateVars == <<p_client, p_loop, sentinel, exchange, p_pc, p_report, p_success,
                    p_attempt, p_calls, p_started, p_run>>

CreatePanicLock ==
  /\ \E report \in ReportsToLock, outcome \in FileOutcomes :
       LET r == create_panic_lock(sm, lockFile, report, outcome)
       IN /\ sm' = r.sm
          /\ lockFile' = r.lock
          /\ p_result' = StateResult("create_panic_lock", IF r.raised THEN "raised" ELSE "done")
  /\ UNCHANGED otherStateVars

RemovePanicLock ==
  /\ \E outcome \in FileOutcomes :
       LET r == remove_panic_lock(sm, lockFile, outcome)
       IN /\ sm' = r.sm
          /\ lockFile' = r.lock
          /\ p_result' = StateResult("remove_panic_lock", IF r.raised THEN "raised" ELSE "done")
  /\ UNCHANGED otherStateVars

DisableTrading ==
  /\ sm' = [sm EXCEPT !.trading_enabled = FALSE]
  /\ p_result' = StateResult("disable_trading", "done")
  /\ UNCHANGED <<lockFile, otherStateVars>>

EnableTrading ==
  /\ sm' = [sm EXCEPT !.trading_enabled = TRUE]
  /\ p_result' = StateResult("enable_trading", "done")
  /\ UNCHANGED <<lockFile, otherStateVars>>

ReloadState ==
  /\ sm' = load_state(lockFile).sm
  /\ lockFile' = load_state(lockFile).lock
  /\ p_result' = StateResult("load_state", "done")
  /\ UNCHANGED otherStateVars

InitLock ==
  /\ IdleCls /\ InitGuard /\ InitStateManager /\ IdleCenter
  /\ IdleStore
  /\ IdleShared
  /\ IdleSnapshot
  /\ IdlePoll
  /\ IdleDaily
  /\ IdleLedger
  /\ IdlePlanner
  /\ IdleTraders
NextLock ==
  \/ CreatePanicLock /\ UNCHANGED <<clsVars, guardVars, centerVars, storeVars, traderVars, plannerVars, ledgerVars, dailyVars, pollVars, snapshotVars, sharedVars>>
  \/ RemovePanicLock /\ UNCHANGED <<clsVars, guardVars, centerVars, storeVars, traderVars, plannerVars, ledgerVars, dailyVars, pollVars, snapshotVars, sharedVars>>
  \/ DisableTrading /\ UNCHANGED <<clsVars, guardVars, centerVars, storeVars, traderVars, plannerVars, ledgerVars, dailyVars, pollVars, snapshotVars, sharedVars>>
  \/ EnableTrading /\ UNCHANGED <<clsVars, guardVars, centerVars, storeVars, traderVars, plannerVars, ledgerVars, dailyVars, pollVars, snapshotVars, sharedVars>>
  \/ ReloadState /\ UNCHANGED <<clsVars, guardVars, centerVars, storeVars, traderVars, plannerVars, ledgerVars, dailyVars, pollVars, snapshotVars, sharedVars>>
SpecLock == InitLock /\ [][NextLock]_vars

\* the panic service of one process (the HTTP server) next to a second
\* process (the MCP tools) with a StateManager of its own on the same lock
\* file and account
\* execute_panic of the other process as this one sees it: the lock file
\* appears, the account is flattened or left as it is
OtherProcessPanic ==
  /\ lockFile.state = "absent"
  /\ lockFile' = [state |-> "complete", doc |-> LockDocument(create_report(MaxRuns + 1))]
  /\ exchange' \in {exchange, IdleExchange}
  /\ UNCHANGED <<p_client, p_loop, sm, sentinel, p_pc, p_report, p_success, p_attempt,
                 p_result, p_calls, p_started, p_run>>

InitTwo ==
  /\ IdleCls /\ InitGuard
  /\ InitPanic /\ p_client = TRUE /\ p_loop = FALSE
  /\ IdleCenter
  /\ IdleStore
  /\ IdleShared
  /\ IdleSnapshot
  /\ IdlePoll
  /\ IdleDaily
  /\ IdleLedger
  /\ IdlePlanner
  /\ IdleTraders
NextTwo ==
  \/ ExecutePanic /\ UNCHANGED <<clsVars, guardVars, centerVars, storeVars, traderVars, plannerVars, ledgerVars, dailyVars, pollVars, snapshotVars, sharedVars>>
  \/ PanicPhase1 /\ UNCHANGED <<clsVars, guardVars, centerVars, storeVars, traderVars, plannerVars, ledgerVars, dailyVars, pollVars, snapshotVars, sharedVars>>
  \/ PanicPhase2 /\ UNCHANGED <<clsVars, guardVars, centerVars, storeVars, traderVars, plannerVars, ledgerVars, dailyVars, pollVars, snapshotVars, sharedVars>>
  \/ PanicPhase3 /\ UNCHANGED <<clsVars, guardVars, centerVars, storeVars, traderVars, plannerVars, ledgerVars, dailyVars, pollVars, snapshotVars, sharedVars>>
  \/ PanicPhase4 /\ UNCHANGED <<clsVars, guardVars, centerVars, storeVars, traderVars, plannerVars, ledgerVars, dailyVars, pollVars, snapshotVars, sharedVars>>
  \/ PanicPhase5 /\ UNCHANGED <<clsVars, guardVars, centerVars, storeVars, traderVars, plannerVars, ledgerVars, dailyVars, pollVars, snapshotVars, sharedVars>>
  \/ PanicPhase6 /\ UNCHANGED <<clsVars, guardVars, centerVars, storeVars, traderVars, plannerVars, ledgerVars, dailyVars, pollVars, snapshotVars, sharedVars>>
  \/ OtherProcessPanic /\ UNCHANGED <<clsVars, guardVars, centerVars, storeVars, traderVars, plannerVars, ledgerVars, dailyVars, pollVars, snapshotVars, sharedVars>>
SpecTwo == InitTwo /\ [][NextTwo]_vars

\* two processes calling add_realized_pnl and reached_daily_target on one
\* ledger file within one UTC day
InitShare ==
  /\ IdleCls /\ InitGuard /\ IdlePanic /\ IdleCenter
  /\ IdleStore
  /\ IdleSnapshot
  /\ IdlePoll
  /\ IdleDaily
  /\ IdleTraders
  /\ IdlePlanner
  /\ InitLedger
  /\ InitShared
NextShare ==
  \/ (\E p \in Procs : SharedAddLoad(p)) /\ UNCHANGED <<clsVars, guardVars, panicVars, centerVars, storeVars, traderVars, plannerVars, dailyVars, pollVars, snapshotVars>>
  \/ (\E p \in Procs : SharedTargetLoad(p)) /\ UNCHANGED <<clsVars, guardVars, panicVars, centerVars, storeVars, traderVars, plannerVars, dailyVars, pollVars, snapshotVars>>
  \/ (\E p \in Procs : SharedSaveOpen(p)) /\ UNCHANGED <<clsVars, guardVars, panicVars, centerVars, storeVars, traderVars, plannerVars, dailyVars, pollVars, snapshotVars>>
  \/ (\E p \in Procs : SharedSaveWrite(p)) /\ UNCHANGED <<clsVars, guardVars, panicVars, centerVars, storeVars, traderVars, plannerVars, dailyVars, pollVars, snapshotVars>>
SpecShare == InitShare /\ [][NextShare]_vars

\* ----------------------------------------------------------------------
\* Properties
\* ----------------------------------------------------------------------
\* the mode a utilization belongs to, by the interval it lies in
ModeOfInterval(u, th) ==
  CASE u < th.warn -> "NORMAL"
    [] th.warn <= u /\ u < th.derisk -> "ALERT"
    [] th.derisk <= u /\ u < th.cap -> "DERISK"
    [] th.cap <= u /\ u < th.halt -> "EMERGENCY"
    [] u >= th.halt -> "HALT"

Classified == cls_out.done /\ cls_out.center[1] # "none"

\* C1: over ascending thresholds, the command center's determine_risk_mode and
\* the direct guard's if/elif chain both give the mode of the interval the
\* utilization lies in (lower bounds inclusive), and of two utilizations the
\* larger one never gets the less severe mode.
C1_ClassificationByInterval ==
  Classified =>
    /\ \A i \in 1..2 :
         /\ cls_out.center[i] = ModeOfInterval(cls_in[i], cls_th)
         /\ cls_out.guard[i] = ModeOfInterval(cls_in[i], cls_th)
    /\ cls_in[1] <= cls_in[2] =>
         /\ Severity(cls_out.center[1]) <= Severity(cls_out.center[2])
         /\ Severity(cls_out.guard[1]) <= Severity(cls_out.guard[2])
    /\ \A i \in 1..2 :
         cls_in[i] = cls_th.derisk =>
           cls_out.center[i] = "DERISK" /\ cls_out.guard[i] = "DERISK"

\* a utilization exactly on derisk_at classified next to a smaller one
C1_Witness ==
  /\ Classified
  /\ cls_in[1] < cls_in[2]
  /\ cls_in[2] = cls_th.derisk
  /\ cls_out.center = <<"ALERT", "DERISK">>
  /\ cls_out.guard = <<"ALERT", "DERISK">>

HaltCycle ==
  g_in.ran /\ g_in.walletOk /\ g_in.listOk /\ g_in.utilization >= halt_at

\* C2: a direct-mode cycle whose wallet and position queries succeed and
\* whose utilization is at least halt_at attempts a close at fraction 1.0
\* (a reduce-only market order for the whole size) for every held position,
\* also after a failed close, and ends with allow_new_entries and
\* trading_enabled both false.
C2_HaltClosesEveryPosition ==
  HaltCycle =>
    /\ Len(g_calls) = Len(g_in.positions)
    /\ \A i \in 1..Len(g_in.positions) :
         /\ g_calls[i].symbol = g_in.positions[i].symbol
         /\ g_calls[i].fraction = <<Scale, Scale>>
    /\ \A i \in 1..Len(g_in.positions) :
         \E k \in 1..Len(g_orders) :
           /\ g_orders[k].symbol = g_in.positions[i].symbol
           /\ g_orders[k].reduceOnly
           /\ g_orders[k].qty = <<g_in.positions[i].contracts * Scale, Scale>>
    /\ ~allow_new_entries
    /\ ~trading_enabled

\* a HALT cycle over two positions in which the first close fails
C2_Witness ==
  /\ HaltCycle
  /\ Len(g_in.positions) = 2
  /\ Len(g_calls) = 2
  /\ ~g_calls[1].ok
  /\ g_calls[2].fraction = <<Scale, Scale>>
  /\ ~trading_enabled

\* a step of execute_panic, of reset_panic, taken between operations
ExecuteStep == p_pc = "idle" /\ p_result'.op = "execute_panic"
ResetStep == p_pc = "idle" /\ p_result'.op = "reset_panic"

Locked == sm.panic_tripped /\ lockFile.state # "absent"

OpenPositions(ex) == Cardinality({s \in Symbols : ex.pos[s]})
ActiveOrders(ex) == Cardinality({s \in Symbols : ex.lin[s] + ex.cond[s] > 0})

\* C4: execute_panic invoked while the coordinator is locked returns the
\* report stored in the lock, sends no order call to the gateway and starts
\* no run; it leaves the lock as it is, so the next invocation returns the
\* same content.
C4_ReentryReturnsStoredReport ==
  [][(ExecuteStep /\ Locked) =>
       /\ p_result'.kind = "existing"
       /\ p_result'.report = lockFile.doc.last_report
       /\ p_calls' = <<>>
       /\ p_pc' = "idle"
       /\ UNCHANGED <<lockFile, sm, sentinel, exchange, p_started>>]_vars

\* the lock of the first run returned to a later execute_panic
C4_Witness ==
  /\ p_result.op = "execute_panic"
  /\ p_result.kind = "existing"
  /\ lockFile.state = "complete"
  /\ p_result.report = lockFile.doc.last_report
  /\ p_result.report.started_at = 1
  /\ p_calls = <<>>
  /\ OpenPositions(exchange) > 0

\* C5: reset_panic invoked while the exchange reports an open position or an
\* active order returns success=false with the remaining counts and leaves
\* lock file, sentinel, panic_tripped and trading_enabled unchanged.
C5_ResetRefusedWhileNotFlat ==
  [][(ResetStep /\ p_client /\ p_result'.answered
        /\ (OpenPositions(exchange) > 0 \/ ActiveOrders(exchange) > 0)) =>
       /\ p_result'.kind = "refused"
       /\ ~p_result'.success
       /\ p_result'.positions_remaining = OpenPositions(exchange)
       /\ p_result'.orders_remaining = ActiveOrders(exchange)
       /\ UNCHANGED <<lockFile, sentinel, sm>>]_vars

\* C6: reset_panic invoked while the exchange reports no open position and
\* no active order returns success=true and leaves the lock file absent, the
\* sentinel absent, panic_tripped false and trading_enabled true.
C6_ResetSucceedsWhenFlat ==
  [][(ResetStep /\ p_client /\ p_result'.answered
        /\ OpenPositions(exchange) = 0 /\ ActiveOrders(exchange) = 0) =>
       /\ p_result'.kind = "success"
       /\ p_result'.success
       /\ lockFile'.state = "absent"
       /\ ~sentinel'
       /\ ~sm'.panic_tripped
       /\ sm'.trading_enabled]_vars

\* C7: the lock file goes away only in a reset_panic step in which the
\* gateway client is available and has answered every query with no open
\* position and no active order.
C7_LockRemovedOnlyAfterConfirmedFlat ==
  [][(lockFile.state # "absent" /\ lockFile'.state = "absent") =>
       /\ ResetStep
       /\ p_client
       /\ p_result'.answered
       /\ OpenPositions(exchange) = 0
       /\ ActiveOrders(exchange) = 0]_vars

\* C3: a consumer that reads a HALT command sends a reduce-only close at
\* fraction 1.0 for every position it holds, and while the command file holds
\* a HALT command check_risk_commands denies new entries.
C3_HaltCommandClosesEveryPosition ==
  /\ (c_log.ran /\ c_log.mode = "HALT" /\ c_log.answered) =>
       \A s \in c_log.held :
         \E k \in 1..Len(c_log.orders) :
           /\ c_log.orders[k].symbol = s
           /\ c_log.orders[k].close_fraction = Scale
           /\ c_log.orders[k].reduce_only
  /\ (Parses(cmdFile) /\ cmdFile.doc.mode = "HALT") => ~check_risk_commands(cmdFile)

\* C10: of the consumer iterations that read one written command, at most
\* the first sends close or cancel orders.
C10_CommandAppliedOnce == c_applied <= 1

\* C8: a reader of risk_commands.json, also one reading while a write is
\* under way or after a writer was interrupted, finds no file or a complete
\* document of a write that was begun; the final path never holds less.
C8_CommandFileNeverPartial ==
  st_doc = "risk_commands.json" =>
    /\ st_seen.file.exists => Complete(st_seen.file) /\ st_seen.file.version <= st_version
    /\ st_final.exists => Complete(st_final)

\* a reader that read the complete previous command while the next one was
\* half written
C8_Witness ==
  /\ st_doc = "risk_commands.json"
  /\ st_seen.during = "writing"
  /\ Complete(st_seen.file)
  /\ st_seen.file.version = st_version - 1
  /\ st_tmp.exists /\ st_tmp.len > 0 /\ st_tmp.len < DocLen

\* C9: a reader of any State Store document (risk flag file, command file,
\* panic lock, daily ledger) finds no file or a complete document.
C9_NoDocumentEverPartial ==
  st_seen.file.exists => Complete(st_seen.file)

\* C11: no entry order (not reduce-only) is sent by a trader in an iteration
\* that began with the panic lock tripped, the trading_disabled sentinel
\* present, or allow_new_entries=false in the command file.
C11_NoEntryUnderStopSignal ==
  (t_entry.placed /\ ~t_entry.reduce_only) =>
    /\ ~t_entry.signals.panic_tripped
    /\ ~t_entry.signals.sentinel
    /\ t_entry.signals.allow_new_entries

\* margin of the positions the planner may close, and the margin its
\* successful closes are estimated to free, in 1/Scale money units
RECURSIVE TotalPositionMargin(_)
TotalPositionMargin(ps) ==
  IF ps = <<>> THEN 0 ELSE Head(ps).position_im * Scale + TotalPositionMargin(Tail(ps))

PositionIm(ps, s) == ps[CHOOSE i \in 1..Len(ps) : ps[i].symbol = s].position_im

RECURSIVE FreedByCalls(_, _)
FreedByCalls(calls, ps) ==
  IF calls = <<>> THEN 0
  ELSE (IF Head(calls).ok
        THEN (PositionIm(ps, Head(calls).symbol) * Scale * Head(calls).fraction[1])
               \div Head(calls).fraction[2]
        ELSE 0) + FreedByCalls(Tail(calls), ps)

ExcessIm == pl_in.used_im * Scale - pl_in.target_utilization * pl_in.total_equity

\* C12: every close fraction shed_margin_to_target passes to
\* close_position_fraction is greater than 0 and at most 1, for any positions,
\* any excess margin and any chunk_fraction in (0, 1].
C12_PlannedFractionsInUnit ==
  pl_out.done =>
    \A k \in 1..Len(pl_out.calls) :
      LET f == pl_out.calls[k].fraction
      IN f[2] > 0 /\ f[1] > 0 /\ f[1] <= f[2]

\* two positions closed, the second at the fraction remaining_excess / position_im
C12_Witness ==
  /\ pl_out.done
  /\ Len(pl_out.calls) = 2
  /\ pl_out.calls[1].fraction = <<pl_in.chunk_fraction, Scale>>
  /\ pl_out.calls[2].fraction[2] # Scale
  /\ ExcessIm > 0

\* C13: when every close succeeds and the positions' total margin covers the
\* excess, the estimated margin freed by the plan is at least the excess;
\* when it does not cover it, every position gets a close.
C13_PlanFreesExcess ==
  (pl_out.done /\ ExcessIm > 0 /\ \A s \in Symbols : pl_in.outcome[s] = "ok") =>
    IF TotalPositionMargin(pl_in.positions) >= ExcessIm
    THEN FreedByCalls(pl_out.calls, pl_in.positions) >= ExcessIm
    ELSE \A i \in 1..Len(pl_in.positions) :
           \E k \in 1..Len(pl_out.calls) : pl_out.calls[k].symbol = pl_in.positions[i].symbol

\* C14: a command written for a snapshot classified as DERISK has
\* allow_new_entries=false, cancel_all_orders=true, close_positions=true,
\* close_fraction=0.25 and target_utilization=target_after_derisk (0.60); the
\* snapshot equity=1000, used_im=750 gives utilization 0.75 and mode DERISK.
C14_DeriskCommand ==
  Parses(cmdFile) =>
    LET command == cmdFile.doc
    IN /\ command.mode = "DERISK" =>
            /\ command.utilization >= derisk_at /\ command.utilization < cap_at
            /\ ~command.allow_new_entries
            /\ command.cancel_all_orders
            /\ command.close_positions
            /\ command.close_fraction * 4 = Scale
            /\ command.target_utilization = target_after_derisk
            /\ command.target_utilization * 10 = 6 * Scale
       /\ ("used_im" \in DOMAIN command /\ command.total_equity = 10 * Scale
             /\ command.used_im * 4 = 3 * command.total_equity) =>
            command.utilization * 4 = 3 * Scale /\ command.mode = "DERISK"
       /\ ("utilization" \in DOMAIN command /\ command.utilization >= derisk_at
             /\ command.utilization < cap_at) => command.mode = "DERISK"

\* the command file after the snapshot equity=1000, used_im=750
C14_Witness ==
  /\ Parses(cmdFile)
  /\ cmdFile.doc.mode = "DERISK"
  /\ cmdFile.doc.total_equity = 10 * Scale
  /\ cmdFile.doc.used_im = 750
  /\ cmdFile.doc.close_fraction = chunk_derisk
  /\ last_mode = "DERISK"

RestingOrders(ex) ==
  ex.lin["A"] + ex.cond["A"] + ex.lin["B"] + ex.cond["B"]

\* C15: a run of execute_panic in which every gateway call succeeds, on an
\* account that had P open positions and R resting orders, returns a report
\* with positions_closed = P, orders_canceled = R, locked and success true,
\* and leaves the account without positions and without orders.
C15_PanicFlattensAccount ==
  (p_pc = "idle" /\ p_result.op = "execute_panic" /\ p_result.kind = "report"
     /\ p_client /\ ~p_loop /\ p_run.clean) =>
    /\ p_result.report.positions_closed = OpenPositions(p_run.before)
    /\ p_result.report.orders_canceled = RestingOrders(p_run.before)
    /\ p_result.report.locked
    /\ p_result.report.success
    /\ OpenPositions(exchange) = 0
    /\ ActiveOrders(exchange) = 0

RECURSIVE SumOf(_)
SumOf(ds) == IF ds = <<>> THEN 0 ELSE SumOf(SubSeq(ds, 1, Len(ds) - 1)) + ds[Len(ds)]

\* the multiple of 0.000001 nearest to x
NearestMicro(x) ==
  CHOOSE r \in (x - TicksPerMicro)..(x + TicksPerMicro) :
    /\ r % TicksPerMicro = 0
    /\ 2 * (x - r) < TicksPerMicro
    /\ 2 * (r - x) <= TicksPerMicro

\* the running sum, rounded to six decimals after every addition
RECURSIVE RoundedSumOf(_)
RoundedSumOf(ds) ==
  IF ds = <<>> THEN 0
  ELSE NearestMicro(RoundedSumOf(SubSeq(ds, 1, Len(ds) - 1)) + ds[Len(ds)])

\* length of the longest suffix of strictly negative deltas
RECURSIVE NegativeSuffix(_)
NegativeSuffix(ds) ==
  IF ds = <<>> \/ ds[Len(ds)] >= 0 THEN 0
  ELSE 1 + NegativeSuffix(SubSeq(ds, 1, Len(ds) - 1))

AllMicros(ds) == \A k \in 1..Len(ds) : ds[k] % TicksPerMicro = 0

\* C16 as stated: after add_realized_pnl(d1), ..., add_realized_pnl(dn) on a
\* day that began with an empty record, realized = d1 + ... + dn, trades = n,
\* loss_streak = length of the longest suffix of negative deltas, and the
\* call leaves stopped as it was.
C16_LedgerSumsDeltas ==
  [][Len(dt_hist') > Len(dt_hist) =>
       /\ dt_day'.present
       /\ dt_day'.realized = SumOf(dt_hist')
       /\ dt_day'.trades = Len(dt_hist')
       /\ dt_day'.loss_streak = NegativeSuffix(dt_hist')
       /\ dt_day'.stopped = dt_day.stopped]_vars

\* C16 amended: realized is the running sum rounded to six decimals after
\* every addition, which is d1 + ... + dn when no delta has more than six
\* decimals; trades, loss_streak and stopped as stated.
C16_LedgerSumsRoundedDeltas ==
  [][Len(dt_hist') > Len(dt_hist) =>
       /\ dt_day'.present
       /\ dt_day'.realized = RoundedSumOf(dt_hist')
       /\ AllMicros(dt_hist') => dt_day'.realized = SumOf(dt_hist')
       /\ dt_day'.trades = Len(dt_hist')
       /\ dt_day'.loss_streak = NegativeSuffix(dt_hist')
       /\ dt_day'.stopped = dt_day.stopped]_vars

\* +50 then -20 on an empty day: realized 30, loss_streak 1, trades 2
C16_Witness ==
  /\ dt_hist = <<50 * Usdt, -20 * Usdt>>
  /\ dt_day.present
  /\ dt_day.realized = 30 * Usdt
  /\ dt_day.loss_streak = 1
  /\ dt_day.trades = 2

\* a step that ends a run of execute_panic
RunEnds == p_pc = "phase6" /\ p_pc' = "idle"

\* C17: an execute_panic call that is not a re-entry runs the six phases once
\* each in the order disable, cancel, flatten, verify, lock, alert, whatever
\* the earlier phases did, and reports the verdict they determined.
C17_SixPhasesInOrder ==
  [][/\ (ExecuteStep /\ p_result'.kind # "existing") => p_pc' = "phase1"
     /\ RunEnds =>
          /\ p_result'.report.phase_timings =
               <<"disable_trading", "cancel_all", "flatten_all", "verify_clean",
                 "arm_lock", "send_alert">>
          /\ p_result'.report.success = p_success]_vars

\* C19: an alert that is not delivered changes nothing: the run goes on to
\* phase 1 after the start alert, the report carries the verdict of phases
\* 1-5 after the phase-6 alert, and a reset that removed the lock returns
\* success=true.
C19_AlertFailureChangesNothing ==
  [][/\ (ExecuteStep /\ p_result'.kind # "existing") =>
          p_pc' = "phase1" /\ p_result'.kind = "running"
     /\ RunEnds => p_result'.kind = "report" /\ p_result'.report.success = p_success
     /\ (ResetStep /\ lockFile.state # "absent" /\ lockFile'.state = "absent") =>
          p_result'.kind = "success" /\ p_result'.success]_vars

\* C20: after a run of execute_panic that armed the lock, the last_report in
\* the lock document is the finalized report returned to the caller.
C20_LockHoldsFinalizedReport ==
  (p_pc = "idle" /\ p_result.op = "execute_panic" /\ p_result.kind = "report"
     /\ lockFile.state = "complete"
     /\ lockFile.doc.last_report.started_at = p_result.report.started_at) =>
    /\ lockFile.doc.last_report.success = p_result.report.success
    /\ lockFile.doc.last_report.locked = p_result.report.locked
    /\ lockFile.doc.last_report.ended_at = p_result.report.ended_at
    /\ lockFile.doc.last_report.error_message = p_result.report.error_message
    /\ lockFile.doc.last_report.phase_timings = p_result.report.phase_timings

\* a monitor cycle whose wallet poll failed
CycleFails == cc_pc = "running" /\ consecutive_errors' = consecutive_errors + 1

\* the command file holding a HALT that forbids entries and asks for the
\* cancellation of all orders
HoldsFallbackHalt(file) ==
  /\ Parses(file)
  /\ file.doc.mode = "HALT"
  /\ ~Get(file.doc, "allow_new_entries", TRUE)
  /\ Get(file.doc, "cancel_all_orders", FALSE)

C21_CloseAllOncePerDay == pf_closeall <= 1

\* C22: within one UTC day, once stopped is true for the day no call of
\* add_realized_pnl, reached_daily_target or reset_if_new_day sets it back
\* to false, even when realized falls below the target afterwards.
C22_StoppedIsOneWay == [][dt_day.stopped => dt_day'.stopped]_vars

\* the latch still set after realized fell below the target
C22_Witness ==
  /\ dt_day.stopped
  /\ dt_day.realized < target_usdt
  /\ Len(dt_hist) >= 2

\* a call of ensure_daily_baseline in the main loop
BaselineCall == pf_ret'.called /\ pf_today' = pf_today

BadWallet(response) ==
  \/ response.retCode # 0
  \/ ~response.listed
  \/ response.totalEquity.kind # "number"
  \/ response.totalInitialMargin.kind # "number"

\* C24: the margin poll raises whenever the wallet response has a non-success
\* code, no wallet entry, or a missing or non-numeric totalEquity or
\* totalInitialMargin, so no utilization comes out of such a response; the
\* center stays in its loop.
C24_BadWalletFailsPoll ==
  (wp_out.polled /\ BadWallet(wp_in)) => (wp_out.raised /\ cc_pc = "running")

\* C25: when the command center's loop is left on an external interrupt, in
\* a monitoring cycle or in the sleep between cycles, the command file holds
\* a SHUTDOWN command with allow_new_entries = false.
C25_InterruptWritesShutdown ==
  [][(cc_pc = "running" /\ cc_pc' = "stopped") =>
        /\ Parses(cmdFile')
        /\ cmdFile'.doc.mode = "SHUTDOWN"
        /\ ~cmdFile'.doc.allow_new_entries]_vars

\* the verify phase ends without the timeout warning
VerifySucceeds ==
  /\ p_report'.warnings = p_report.warnings
  /\ p_success' = p_success

\* the verify phase ends in the timeout: warning appended, the run has failed
VerifyTimesOut ==
  /\ Len(p_report'.warnings) = Len(p_report.warnings) + 1
  /\ p_report'.warnings[Len(p_report'.warnings)].kind = "Verification timeout"
  /\ ~p_success'

\* C26: the verify phase polls positions and orders at most max_retries
\* times and ends; it succeeds exactly when a poll of the window counted no
\* position and no order, times out with a warning and a failure otherwise,
\* and leaves the account and the flags of phase 1 as they are.
C26_VerifyBoundedPolls ==
  [][p_pc = "phase4" =>
       /\ p_run'.polls <= MaxRetries
       /\ p_pc' \in {"phase4", "phase5"}
       /\ p_pc' = "phase5" =>
            /\ p_run'.found => VerifySucceeds
            /\ ~p_run'.found => (VerifyTimesOut /\ p_run'.polls = MaxRetries)
       /\ exchange' = exchange /\ sm' = sm /\ sentinel' = sentinel]_vars

\* every symbol whose cancel or close failed in this step has a warning of
\* this step, and the run has failed
FailuresWarned ==
  \A s \in (p_run'.failed \ p_run.failed) :
    /\ \E i \in (Len(p_report.warnings) + 1)..Len(p_report'.warnings) :
         p_report'.warnings[i].symbol = s
    /\ ~p_success'

\* C27: in the cancel and the flatten phase, every symbol whose cancel or
\* close failed, the call raising or answering something else than OK, gets
\* a warning in the report, and the run is a failure.
C27_FailedCloseIsWarned ==
  [][(p_pc \in {"phase2", "phase3"}) => FailuresWarned]_vars

\* the symbols on which the run sent a cancel (phase 2) or a close (phase 3)
CalledSymbols == {p_calls[i].symbol : i \in 1..Len(p_calls)}

\* C28: symbols_touched of the returned report and of the lock armed by the
\* run is the union of the symbols on which phase 2 issued a cancel and of
\* those on which phase 3 issued a close.
C28_TouchedIsCancelledAndClosed ==
  (p_pc = "idle" /\ p_result.op = "execute_panic" /\ p_result.kind = "report") =>
    /\ p_result.report.symbols_touched = CalledSymbols
    /\ (lockFile.state = "complete"
          /\ lockFile.doc.last_report.started_at = p_result.report.started_at) =>
         lockFile.doc.last_report.symbols_touched = CalledSymbols

\* C29: in DERISK or EMERGENCY mode with excess_im = used_im - target *
\* total_equity <= 0 nothing is closed: the direct guard places no close
\* order and the command of the command center does not ask for positions
\* to be closed.
C29_NoCloseWithoutExcess ==
  (sn_out.done /\ sn_out.mode \in {"DERISK", "EMERGENCY"} /\ sn_out.excess_im <= 0) =>
    /\ sn_out.orders = <<>>
    /\ ~Get(sn_out.command, "close_positions", FALSE)

\* the position the planner was handed for a symbol
PlannedPosition(s) ==
  pl_in.positions[CHOOSE i \in 1..Len(pl_in.positions) : pl_in.positions[i].symbol = s]

\* p is to be closed before q: losing before profitable, then the higher
\* leverage, then the higher position margin
ClosedFirst(p, q) ==
  \/ p.is_losing /\ ~q.is_losing
  \/ p.is_losing = q.is_losing /\ p.leverage > q.leverage
  \/ p.is_losing = q.is_losing /\ p.leverage = q.leverage /\ p.position_im > q.position_im

AttemptedSymbols == {pl_out.calls[k].symbol : k \in 1..Len(pl_out.calls)}

\* C30: the planner attempts positions in priority order (losing before
\* profitable, then higher leverage, then higher margin), never attempts a
\* position without margin, attempts each position at most once, and makes
\* no attempt once the remaining excess is <= 0.
C30_PlannerPriorityOrder ==
  pl_out.done =>
    /\ \A i, j \in 1..Len(pl_out.calls) :
         i < j =>
           /\ pl_out.calls[i].symbol # pl_out.calls[j].symbol
           /\ ~ClosedFirst(PlannedPosition(pl_out.calls[j].symbol),
                           PlannedPosition(pl_out.calls[i].symbol))
    /\ \A k \in 1..Len(pl_out.calls) :
         /\ PlannedPosition(pl_out.calls[k].symbol).position_im > 0
         /\ ExcessIm - FreedByCalls(SubSeq(pl_out.calls, 1, k - 1), pl_in.positions) > 0
    /\ \A i \in 1..Len(pl_in.positions) :
         (pl_in.positions[i].position_im > 0
            /\ pl_in.positions[i].symbol \notin AttemptedSymbols) =>
           /\ \A s \in AttemptedSymbols : ~ClosedFirst(pl_in.positions[i], PlannedPosition(s))
           /\ ExcessIm - FreedByCalls(pl_out.calls, pl_in.positions) <= 0

\* a profitable position listed first and attempted second, after the losing one
C30_Witness ==
  /\ pl_out.done
  /\ Len(pl_out.calls) = 2
  /\ Len(pl_in.positions) = 2
  /\ ~pl_in.positions[1].is_losing
  /\ pl_in.positions[2].is_losing
  /\ pl_in.positions[1].leverage > pl_in.positions[2].leverage
  /\ pl_out.calls[1].symbol = pl_in.positions[2].symbol

\* C31: every order a risk-control path issues (a close of the direct guard, a
\* flatten order of the panic run, a close of the command consumer) is a
\* reduce-only IOC market order on the side opposite to the position it
\* closes, for at most the position's size
GuardOrderReduces(o) ==
  \E i \in 1..Len(g_in.positions) :
    LET position == g_in.positions[i]
    IN /\ position.symbol = o.symbol
       /\ o.side = (IF position.side = "long" THEN "Sell" ELSE "Buy")
       /\ o.orderType = "Market" /\ o.reduceOnly /\ o.timeInForce = "IOC"
       /\ o.qty[1] > 0
       /\ o.qty[1] <= position.contracts * o.qty[2]

PanicOrderReduces(o) ==
  /\ o.side \in {"Buy", "Sell"} /\ o.side # PositionSide(o.symbol)
  /\ o.order_type = "Market" /\ o.reduce_only /\ o.time_in_force = "IOC"
  /\ o.qty > 0 /\ o.qty <= 1

ConsumerOrderReduces(o) ==
  /\ o.side \in {"Buy", "Sell"} /\ o.side # PositionSide(o.symbol)
  /\ o.order_type = "Market" /\ o.reduce_only /\ o.time_in_force = "IOC"
  /\ o.qty > 0 /\ o.qty <= 1 * Scale

C31_RiskOrdersOnlyReduce ==
  /\ \A i \in 1..Len(g_orders) : GuardOrderReduces(g_orders[i])
  /\ \A i \in 1..Len(p_calls) :
       p_calls[i].call = "LinearOrder_new" => PanicOrderReduces(p_calls[i])
  /\ \A i \in 1..Len(c_log.orders) : ConsumerOrderReduces(c_log.orders[i])

\* a panic run and the consumer have both sent closes, the consumer a partial
\* one, after a guard cycle at or above derisk_at
C31_Witness ==
  /\ last_utilization >= derisk_at
  /\ \E i \in 1..Len(p_calls) : p_calls[i].call = "LinearOrder_new"
  /\ \E i \in 1..Len(c_log.orders) : c_log.orders[i].qty < Scale

\* C32: after every cycle of the command center (the wallet answered or not),
\* last_mode is the mode of the command the command file holds, so that every
\* change of the file's mode between two cycles is logged as a mode change
CenterCycleStep == CenterCycle \/ CenterCycleError

C32_LastModeFollowsCommandFile ==
  [][CenterCycleStep => (cmdFile'.state = "complete" => last_mode' = cmdFile'.doc.mode)]_vars

\* C33: for one StateManager whose lock file no other process touches,
\* between any two operations panic_tripped holds exactly when the lock file
\* exists, and is_trading_enabled() is false while it exists; also after a
\* start-up load, a failed create_panic_lock and a failed remove_panic_lock
C33_TrippedIffLockFile ==
  /\ sm.panic_tripped <=> lockFile.state # "absent"
  /\ lockFile.state # "absent" => ~is_trading_enabled(sm)

\* remove_panic_lock has raised and left an armed lock, trading re-enabled
\* by enable_trading before it
C33_Witness ==
  /\ p_result.op = "remove_panic_lock" /\ p_result.kind = "raised"
  /\ lockFile.state = "complete" /\ sm.trading_enabled

\* C34: while a valid panic lock file exists on disk, execute_panic sends no
\* cancel and no close call, also when the lock was created by another
\* process after this one loaded its state
C34_NoCallsUnderLock ==
  [][Parses(lockFile) => Len(p_calls') <= Len(p_calls)]_vars

\* C35: with two processes calling add_realized_pnl and reached_daily_target
\* on one ledger file, once every call has returned the record holds the sum
\* of all deltas as realized and the number of add calls as trades, and a
\* saved stopped=true latch is still there
C35_NoLostLedgerUpdate ==
  (\A p \in Procs : lp_pc[p] = "idle") =>
    /\ dt_day.realized = SumOf(dt_hist)
    /\ dt_day.trades = Len(dt_hist)
    /\ lp_latched => dt_day.stopped

\* C36: when a run of execute_panic that is not a re-entry, with a gateway
\* client, returns success=true, the account holds no position and no active
\* order on any configured symbol (the account does not change between the
\* last verify poll and the return); the same after a reset_panic that
\* returns success=true: a failing query never counts as nothing remaining
C36_SuccessMeansVerifiedClean ==
  (/\ p_pc = "idle" /\ p_client /\ p_result.success
   /\ \/ p_result.op = "execute_panic" /\ p_result.kind = "report"
      \/ p_result.op = "reset_panic") =>
    /\ OpenPositions(exchange) = 0
    /\ ActiveOrders(exchange) = 0

\* C37: when a run of execute_panic that is not a re-entry returns,
\* report.locked is true exactly when phase 5 armed the panic lock (the lock
\* file exists and panic_tripped is true), also when an earlier phase failed
\* and the lock was created all the same
C37_LockedIffLockArmed ==
  (p_pc = "idle" /\ p_result.op = "execute_panic" /\ p_result.kind = "report") =>
    (p_result.report.locked <=> (lockFile.state # "absent" /\ sm.panic_tripped))

\* C38: in every flag document the direct guard has written, whatever the
\* cycles and utilizations before, allow_new_entries=true comes with
\* trading_enabled=true
C38_AllowImpliesEnabled ==
  flagFile.state = "complete" =>
    (flagFile.doc.allow_new_entries => flagFile.doc.trading_enabled)

\* C39: every cycle of the direct guard that polled a utilization of
\* derisk_at or more ends with allow_new_entries=false in the flag file, also
\* when the position listing or a cancel or close call failed in that cycle
C39_DeriskCycleBlocksEntries ==
  [][(g_pc = "idle" /\ g_pc' = "done" /\ g_in'.walletOk /\ g_in'.utilization >= derisk_at) =>
       (flagFile'.state = "complete" /\ ~flagFile'.doc.allow_new_entries)]_vars

\* C40: once phase 1 of a panic run has executed, is_trading_enabled() stays
\* false in the panic service until a reset_panic call returns success, also
\* when later phases fail, when the lock cannot be created and across
\* refused resets (a restart of the process is not a step of the service)
RestartStep == p_result' = NoResultYet /\ p_run' = NoRun

C40_DisabledUntilResetSucceeds ==
  [][(~is_trading_enabled(sm) /\ is_trading_enabled(sm') /\ ~RestartStep) =>
       (p_result'.op = "reset_panic" /\ p_result'.success)]_vars

====
